---- MODULE Spec2Model ----
(***************************************************************************)
(* Model of the memory-analysis core of memflow-shards: the value scanner  *)
(* (scan_buffer, create_scan_result), the wildcard pattern scanner         *)
(* (scan_pattern) and the cross-reference scanner (scan_region_for_xrefs,  *)
(* find_potential_call_offsets, is_reference_to).                          *)
(*                                                                         *)
(* Machine words.  TLC integers are 32 bits wide, so a 64-bit word w       *)
(* (u64, umem, usize, i64) is represented by the integer r with            *)
(* r = w (mod 2^64) and |r| small: r >= 0 stands for the word r,           *)
(* r < 0 for the word 2^64 + r.  Wrapping addition and subtraction are     *)
(* then + and - on representatives, an `as` cast between i64 and u64 keeps *)
(* the representative, the signed order is the order of representatives    *)
(* and the unsigned order puts every negative representative above every   *)
(* non-negative one.  An i64 decoded from memory is kept as four 16-bit    *)
(* limbs, least significant first.                                         *)
(***************************************************************************)
EXTENDS Integers, Sequences, FiniteSets, TLC

VARIABLES
    buffer,            \* the bytes read from the region under scan
    base_addr,         \* the region's base address
    search_value,      \* ScanValue of the value scan
    alignment,         \* stride of the first-pass value scan (usize)
    previous_results,  \* None, or the previous-result table in iteration order
    compare_type,      \* None, or the CompareType of an incremental scan
    pattern,           \* parsed pattern of the pattern scan
    xref,              \* parameters of the xref scan
    results,           \* the Vec returned by the scan
    status,            \* "ready", "returned", "failed" or "panicked"
    maps,              \* the memory map the process handle enumerates
    request,           \* the parameters of a shard activation
    reads              \* base addresses of the reads issued to the process handle

vars == <<buffer, base_addr, search_value, alignment, previous_results,
          compare_type, pattern, xref, results, status, maps, request, reads>>

\* Option<T>: None is the empty sequence, Some(x) the sequence holding x
None == <<>>
Some(x) == <<x>>

\* a scan of one buffer involves no memory map, no shard parameters and no
\* process handle
NoProcess == maps = <<>> /\ request = <<>> /\ reads = <<>>

-----------------------------------------------------------------------------
(* Bounds of the model *)

\* bytes a region buffer may have beyond the 8 bytes of an i64
MaxSlack == 3
\* bytes of the (zero-filled) region the target process has overwritten
MaxWrites == 2
\* largest alignment of a first-pass scan
MaxAlign == 3
\* longest string / byte-string target
MaxValueLen == 2
\* longest pattern of a pattern scan
MaxPatternLen == 2
\* most entries of a previous-result table
MaxPrev == 2
\* longest protection filter string
MaxFilterLen == 3
\* most regions of a memory map
MaxRegions == 2
\* most characters of a pattern string
MaxPatternStrLen == 4
\* most bytes of a buffer handed to the candidate pass
MaxCandidateLen == 7
\* most entries of a batch of reads or writes
MaxBatch == 2
\* bytes a code region may have beyond the 10 bytes the xref shard requires
MaxXrefSlack == 2
\* bytes of the (zero-filled) code region that hold something else
MaxXrefWrites == 2
\* leading bytes of a code region that hold code, before its zero padding
MaxCodeLen == 5

-----------------------------------------------------------------------------
(* Machine words *)

\* unsigned `a < b` on word representatives
U64Less(a, b) == IF (a >= 0) = (b >= 0) THEN a < b ELSE a >= 0

\* usize::saturating_sub
saturating_sub(a, b) == IF a >= b THEN a - b ELSE 0

\* unsigned `a + b` leaves the 64-bit range
AddOverflows(a, b) == (a < 0 /\ b < 0) \/ ((a < 0 \/ b < 0) /\ a + b >= 0)

\* unsigned `a - b` leaves the 64-bit range
SubOverflows(a, b) == U64Less(a, b)

\* floor(r / 2^63), by divisions TLC can carry out
WordHigh(r) == (((r \div 65536) \div 65536) \div 65536) \div 32768

\* the representative in -2^63 .. 2^63 - 1 of the word r (mod 2^64): r
\* itself when it lies there
wrapping(r) ==
    LET k == (WordHigh(r) + 1) \div 2
    IN IF k = 0 THEN r ELSE r - k * (65536 * 65536 * 65536 * 65536)

\* unsigned `a * n` leaves the 64-bit range, for a count n >= 0: a negative
\* representative is a word of 2^63 or more
MulOverflows(a, n) == IF a < 0 THEN n >= 2 ELSE WordHigh(a * n) >= 2

\* the bytes buffer[off .. off+n] (off is a 0-based offset)
Slice(buf, off, n) == [i \in 1..n |-> buf[off + i]]

\* i64::from_ne_bytes on a little-endian target: four 16-bit limbs, low first
i64_from_ne_bytes(b) == [k \in 1..4 |-> b[2 * k - 1] + 256 * b[2 * k]]

\* the i64 literal n, for small n, as limbs
I64(n) == IF n >= 0 THEN <<n, 0, 0, 0>> ELSE <<65536 + n, 65535, 65535, 65535>>

\* signed value of the most significant limb
TopLimb(x) == IF x[4] >= 32768 THEN x[4] - 65536 ELSE x[4]

\* signed i64 `x < y`
I64Less(x, y) ==
    \/ TopLimb(x) < TopLimb(y)
    \/ /\ TopLimb(x) = TopLimb(y)
       /\ \E k \in 1..3 : /\ x[k] < y[k]
                          /\ \A j \in (k + 1)..3 : x[j] = y[j]

-----------------------------------------------------------------------------
(* IEEE-754 values, as sign / biased exponent / mantissa limbs *)

\* f32::from_ne_bytes on a little-endian target
f32_from_ne_bytes(b) ==
    [sign |-> b[4] \div 128,
     exp  |-> (b[4] % 128) * 2 + b[3] \div 128,
     mant |-> <<b[1] + 256 * b[2], b[3] % 128>>,
     tiny |-> 103, two |-> 128, top |-> 255]

\* f64::from_ne_bytes on a little-endian target
f64_from_ne_bytes(b) ==
    [sign |-> b[8] \div 128,
     exp  |-> (b[8] % 128) * 16 + b[7] \div 16,
     mant |-> <<b[1] + 256 * b[2], b[3] + 256 * b[4], b[5] + 256 * b[6], b[7] % 16>>,
     tiny |-> 970, two |-> 1024, top |-> 2047]

\* (x - y).abs() < EPSILON, EPSILON = 2^-23 (f32) or 2^-52 (f64).
\*  - a NaN or infinite operand makes the difference NaN or infinite;
\*  - equal finite operands differ by 0;
\*  - two operands below EPSILON/2 (exp < tiny) differ by less than EPSILON;
\*  - distinct operands one of which is at least 2.0 (exp >= two) differ by
\*    at least one unit in the last place of 2.0, which is EPSILON.
\* Operands between EPSILON/2 and 2.0 are outside the modelled memory
\* contents and have no arm.
FloatClose(x, y) ==
    CASE x.exp = x.top \/ y.exp = y.top -> FALSE
      [] x.exp # x.top /\ y.exp # y.top /\ x = y -> TRUE
      [] x.exp < x.tiny /\ y.exp < y.tiny /\ x # y -> TRUE
      [] x # y /\ x.exp # x.top /\ y.exp # y.top
              /\ (x.exp >= x.two \/ y.exp >= y.two) -> FALSE

\* String::from_utf8_lossy: an ASCII byte is its own character, a byte that
\* no UTF-8 sequence contains (0xF8..0xFF) becomes U+FFFD
from_utf8_lossy(bytes) ==
    [i \in 1..Len(bytes) |->
        CASE bytes[i] < 128 -> bytes[i]
          [] bytes[i] >= 248 -> 65533]

-----------------------------------------------------------------------------
(* Value scanner *)

size_of_i64 == 8
size_of_f32 == 4
size_of_f64 == 8

\* ScanValue constructors: the tag and the payload
Integer(limbs) == [tag |-> "Integer", val |-> limbs]
Float(f)       == [tag |-> "Float",   val |-> f]
Double(d)      == [tag |-> "Double",  val |-> d]
String(bytes)  == [tag |-> "String",  val |-> bytes]
Bytes(bytes)   == [tag |-> "Bytes",   val |-> bytes]

\* ScanValue::size
size(sv) ==
    CASE sv.tag = "Integer" -> size_of_i64
      [] sv.tag = "Float"   -> size_of_f32
      [] sv.tag = "Double"  -> size_of_f64
      [] sv.tag = "String"  -> Len(sv.val)
      [] sv.tag = "Bytes"   -> Len(sv.val)

\* create_scan_result: the field of the scanned type is decoded from the
\* buffer when it fits, every other field keeps its zero value
create_scan_result(buf, offset, address, sv) ==
    LET fits(n) == offset + n <= Len(buf)
    IN [address      |-> address,
        value_int    |-> IF sv.tag = "Integer" /\ fits(size_of_i64)
                         THEN i64_from_ne_bytes(Slice(buf, offset, size_of_i64))
                         ELSE I64(0),
        value_float  |-> IF sv.tag = "Float" /\ fits(size_of_f32)
                         THEN f32_from_ne_bytes(Slice(buf, offset, size_of_f32))
                         ELSE f32_from_ne_bytes(<<0, 0, 0, 0>>),
        value_double |-> IF sv.tag = "Double" /\ fits(size_of_f64)
                         THEN f64_from_ne_bytes(Slice(buf, offset, size_of_f64))
                         ELSE f64_from_ne_bytes(<<0, 0, 0, 0, 0, 0, 0, 0>>),
        value_string |-> IF sv.tag = "String" /\ fits(Len(sv.val))
                         THEN from_utf8_lossy(Slice(buf, offset, Len(sv.val)))
                         ELSE <<>>,
        value_bytes  |-> IF sv.tag = "Bytes" /\ fits(Len(sv.val))
                         THEN Slice(buf, offset, Len(sv.val))
                         ELSE <<>>]

\* the `matches` expression of the first-pass loop body; an offset whose
\* value does not fit takes the `continue`
first_pass_matches(buf, offset, sv) ==
    CASE sv.tag = "Integer" ->
            /\ offset + size_of_i64 <= Len(buf)
            /\ i64_from_ne_bytes(Slice(buf, offset, size_of_i64)) = sv.val
      [] sv.tag = "Float" ->
            /\ offset + size_of_f32 <= Len(buf)
            /\ FloatClose(f32_from_ne_bytes(Slice(buf, offset, size_of_f32)), sv.val)
      [] sv.tag = "Double" ->
            /\ offset + size_of_f64 <= Len(buf)
            /\ FloatClose(f64_from_ne_bytes(Slice(buf, offset, size_of_f64)), sv.val)
      [] sv.tag = "String" ->
            /\ offset + Len(sv.val) <= Len(buf)
            /\ Slice(buf, offset, Len(sv.val)) = sv.val
      [] sv.tag = "Bytes" ->
            /\ offset + Len(sv.val) <= Len(buf)
            /\ Slice(buf, offset, Len(sv.val)) = sv.val

\* step_by that advances by one whatever the step (mutant of step_by)
step_by_ignoring_step(end, step) == [k \in 1..end |-> k - 1]

\* (0..end).step_by(step) as a sequence; a step that is a negative
\* representative is larger than any buffer and yields the first item only
step_by(end, step) ==
    LET n == IF step < 0 THEN (IF end > 0 THEN 1 ELSE 0)
             ELSE (end + step - 1) \div step
    IN [k \in 1..n |-> (k - 1) * step]

\* the exclusive end of the first-pass offset range
first_pass_end(buf, sv) == saturating_sub(Len(buf), size(sv))

\* scan_buffer, `else` branch: the first scan checks all memory.
\* step_by panics on a zero step.
scan_buffer_first_pass(buf, sv, align, base) ==
    IF align = 0 THEN [fault |-> TRUE, results |-> <<>>]
    ELSE
    LET offsets == step_by(first_pass_end(buf, sv), align)
        hit(o)  == first_pass_matches(buf, o, sv)
        hits    == SelectSeq(offsets, hit)
    IN [fault   |-> FALSE,
        results |-> [i \in 1..Len(hits) |->
                        create_scan_result(buf, hits[i], base + hits[i], sv)]]

\* CompareType
CompareTypes == {"Equal", "NotEqual", "Greater", "Less", "Changed", "Unchanged"}

\* values an entry of the previous-result table may hold under "value"
IntVar(limbs) == [type |-> "Int", int |-> limbs]
FloatVar      == [type |-> "Float"]

\* the comparison of the Integer arm with Greater and Less exchanged
\* (mutant of compare_integer)
compare_integer_swapped(cmp, current_value, search_int, prev_int) ==
    CASE cmp = "Equal"     -> current_value = search_int
      [] cmp = "NotEqual"  -> current_value # search_int
      [] cmp = "Greater"   -> I64Less(current_value, search_int)
      [] cmp = "Less"      -> I64Less(search_int, current_value)
      [] cmp = "Changed"   -> current_value # prev_int
      [] cmp = "Unchanged" -> current_value = prev_int

\* `match compare_type` of the Integer arm
compare_integer(cmp, current_value, search_int, prev_int) ==
    CASE cmp = "Equal"     -> current_value = search_int
      [] cmp = "NotEqual"  -> current_value # search_int
      [] cmp = "Greater"   -> I64Less(search_int, current_value)
      [] cmp = "Less"      -> I64Less(current_value, search_int)
      [] cmp = "Changed"   -> current_value # prev_int
      [] cmp = "Unchanged" -> current_value = prev_int

\* The body of the incremental loop for one entry of the table: "skip" (a
\* `continue`, or `matches` false), "push" or "panic".  `checks` is the
\* build's overflow-checks setting: with it an overflowing subtraction or
\* addition panics, without it the result wraps.
entry_outcome(buf, sv, base, cmp, entry, checks) ==
    IF entry.address = None THEN "skip"
    ELSE
    LET addr      == entry.address[1]
        offset    == addr - base
        value_end == offset + size(sv)
        int_end   == offset + size_of_i64
    IN CASE SubOverflows(addr, base) /\ checks -> "panic"
         [] ~(SubOverflows(addr, base) /\ checks)
            /\ AddOverflows(offset, size(sv)) /\ checks -> "panic"
         [] ~(SubOverflows(addr, base) /\ checks)
            /\ ~(AddOverflows(offset, size(sv)) /\ checks) ->
              IF U64Less(Len(buf), value_end) THEN "skip"
              ELSE IF entry.value = None THEN "skip"
              ELSE IF sv.tag # "Integer" THEN "skip"
              ELSE IF U64Less(Len(buf), int_end) THEN "skip"
              \* buffer[offset..offset + 8]: the range must be ordered
              ELSE IF U64Less(int_end, offset) THEN "panic"
              ELSE IF entry.value[1].type # "Int" THEN "skip"
              ELSE IF compare_integer(cmp,
                          i64_from_ne_bytes(Slice(buf, offset, size_of_i64)),
                          sv.val, entry.value[1].int)
                   THEN "push" ELSE "skip"

\* the incremental loop from entry k on; a panic ends the call
RECURSIVE incremental_from(_, _, _, _, _, _, _)
incremental_from(buf, sv, base, prev, cmp, checks, k) ==
    IF k > Len(prev) THEN [fault |-> FALSE, results |-> <<>>]
    ELSE
    LET outcome == entry_outcome(buf, sv, base, cmp, prev[k], checks)
        rest    == incremental_from(buf, sv, base, prev, cmp, checks, k + 1)
    IN IF outcome = "panic" \/ rest.fault THEN [fault |-> TRUE, results |-> <<>>]
       ELSE IF outcome = "push"
       THEN [fault   |-> FALSE,
             results |-> <<create_scan_result(buf, prev[k].address[1] - base,
                                              prev[k].address[1], sv)>>
                         \o rest.results]
       ELSE rest

\* a scan that takes the first-pass branch whatever it is given (mutant of
\* scan_buffer)
scan_buffer_always_first_pass(buf, sv, align, base, prev, cmp, checks) ==
    scan_buffer_first_pass(buf, sv, align, base)

\* scan_buffer: incremental when previous results and a compare type are
\* given, a first pass otherwise
scan_buffer(buf, sv, align, base, prev, cmp, checks) ==
    IF prev # None /\ cmp # None
    THEN incremental_from(buf, sv, base, prev[1], cmp[1], checks, 1)
    ELSE scan_buffer_first_pass(buf, sv, align, base)

-----------------------------------------------------------------------------
(* The scanned region and the inputs of a value scan *)

\* size of the smallest region the default MinSize admits
DefaultMinSize == 4096

\* n zero bytes
Zeros(n) == [i \in 1..n |-> 0]

\* byte values the target process stores into its zero-filled memory
WrittenBytes == {65, 255}

\* lengths of the small region buffers
BufLens == 0..(size_of_i64 + MaxSlack)

\* base addresses of the scanned region
Bases == {4096}

\* target literals of a value scan
IntegerTargets == {Integer(I64(0)), Integer(I64(255))}
FloatTargets ==
    {Float(f32_from_ne_bytes(<<0, 0, 0, 0>>)), Float(f32_from_ne_bytes(<<0, 0, 0, 255>>))}
DoubleTargets == {Double(f64_from_ne_bytes(Zeros(size_of_f64)))}
StringTargets == {String([i \in 1..n |-> 65]) : n \in 1..MaxValueLen}
BytesTargets == {Bytes([i \in 1..n |-> 255]) : n \in 1..MaxValueLen}
ScanValues ==
    IntegerTargets \cup FloatTargets \cup DoubleTargets \cup StringTargets \cup BytesTargets

\* the region before any scan: zero-filled memory, no result
InitRegion ==
    /\ buffer \in {Zeros(n) : n \in BufLens \cup {DefaultMinSize}}
    /\ base_addr \in Bases
    /\ results = <<>>
    /\ status = "ready"

\* the target process stores a byte into the region before it is read
\* (process.read_raw_into delivers the bytes as they are at scan time)
TargetWrites ==
    /\ status = "ready"
    /\ Len(buffer) <= size_of_i64 + MaxSlack
    /\ Cardinality({i \in 1..Len(buffer) : buffer[i] # 0}) < MaxWrites
    /\ \E i \in 1..Len(buffer), b \in WrittenBytes :
          /\ buffer[i] = 0
          /\ buffer' = [buffer EXCEPT ![i] = b]
    /\ UNCHANGED <<base_addr, search_value, alignment, previous_results,
                   compare_type, pattern, xref, results, status,
                   maps, request, reads>>

-----------------------------------------------------------------------------
(* First-pass value scan *)

InitFirstPass ==
    /\ InitRegion
    /\ search_value \in ScanValues
    /\ alignment \in 0..MaxAlign
    /\ previous_results = None
    /\ compare_type = None
    /\ pattern = <<>>
    /\ xref = <<>>
    /\ NoProcess

\* scan_buffer called without previous results
FirstPassScan ==
    /\ status = "ready"
    /\ previous_results = None
    /\ \E checks \in BOOLEAN :
          LET r == scan_buffer(buffer, search_value, alignment, base_addr,
                               previous_results, compare_type, checks)
          IN /\ results' = r.results
             /\ status' = IF r.fault THEN "panicked" ELSE "returned"
    /\ UNCHANGED <<buffer, base_addr, search_value, alignment, previous_results,
                   compare_type, pattern, xref,
                   maps, request, reads>>

NextFirstPass == TargetWrites \/ FirstPassScan

SpecFirstPass == InitFirstPass /\ [][NextFirstPass]_vars

-----------------------------------------------------------------------------
(* Claims about the first-pass value scan *)

\* the value decoded at `offset` equals the target: `==` of the scanned type
DecodedEquals(buf, offset, sv) ==
    CASE sv.tag = "Integer" ->
            i64_from_ne_bytes(Slice(buf, offset, size_of_i64)) = sv.val
      [] sv.tag = "Float" ->
            LET x == f32_from_ne_bytes(Slice(buf, offset, size_of_f32))
            IN /\ ~(x.exp = x.top /\ x.mant # <<0, 0>>)
               /\ ~(sv.val.exp = sv.val.top /\ sv.val.mant # <<0, 0>>)
               /\ \/ x = sv.val
                  \/ x.exp = 0 /\ x.mant = <<0, 0>> /\ sv.val.exp = 0 /\ sv.val.mant = <<0, 0>>
      [] sv.tag = "Double" ->
            LET x == f64_from_ne_bytes(Slice(buf, offset, size_of_f64))
            IN /\ ~(x.exp = x.top /\ x.mant # <<0, 0, 0, 0>>)
               /\ ~(sv.val.exp = sv.val.top /\ sv.val.mant # <<0, 0, 0, 0>>)
               /\ \/ x = sv.val
                  \/ /\ x.exp = 0 /\ x.mant = <<0, 0, 0, 0>>
                     /\ sv.val.exp = 0 /\ sv.val.mant = <<0, 0, 0, 0>>
      [] sv.tag \in {"String", "Bytes"} ->
            Slice(buf, offset, Len(sv.val)) = sv.val

\* a first-pass scan with an alignment of at least 1 has returned
FirstPassReturned ==
    status = "returned" /\ previous_results = None /\ alignment >= 1

\* C1: a first-pass scan examines every offset that is a multiple of the
\* alignment and at which the value fits, the last window
\* offset = buffer_len - value_size included, and emits base + offset
\* whenever the value decoded there equals the target.
C1_FirstPassComplete ==
    FirstPassReturned =>
        \A o \in 0..Len(buffer) :
            (/\ o % alignment = 0
             /\ o + size(search_value) <= Len(buffer)
             /\ DecodedEquals(buffer, o, search_value))
            => \E i \in 1..Len(results) : results[i].address = base_addr + o

\* C2: every match of a first-pass scan is at an address congruent to the
\* region base modulo the alignment, inside the buffer, and the value
\* decoded there equals the target: the same i64 for an integer scan, the
\* same bytes for a string or byte-string scan.
C2_FirstPassSound ==
    FirstPassReturned =>
        \A i \in 1..Len(results) :
            LET o == results[i].address - base_addr
            IN /\ o >= 0
               /\ o % alignment = 0
               /\ o + size(search_value) <= Len(buffer)
               /\ search_value.tag = "Integer" =>
                    /\ i64_from_ne_bytes(Slice(buffer, o, size_of_i64)) = search_value.val
                    /\ results[i].value_int = search_value.val
               /\ search_value.tag \in {"String", "Bytes"} =>
                    Slice(buffer, o, Len(search_value.val)) = search_value.val
               /\ search_value.tag = "Bytes" =>
                    results[i].value_bytes = search_value.val

\* C2 witness: an integer scan with a stride above 1 that matched beyond the
\* first offset, and a byte-string scan that matched
C2_Witness ==
    /\ FirstPassReturned
    /\ alignment >= 2
    /\ search_value.tag = "Integer"
    /\ search_value.val # I64(0)
    /\ \E i \in 1..Len(results) : results[i].address > base_addr

\* the end-to-end scenario: one all-zero region of 4096 bytes, Integer(0),
\* alignment 1, first pass
ZeroRegionScanned ==
    /\ status = "returned"
    /\ previous_results = None
    /\ buffer = Zeros(DefaultMinSize)
    /\ search_value = Integer(I64(0))
    /\ alignment = 1

\* C3: the all-zero 4096-byte region yields 4093 matches for Integer(0) at
\* alignment 1.
C3_ZeroRegion4093 ==
    ZeroRegionScanned => Len(results) = 4093

-----------------------------------------------------------------------------
(* Pattern scanner *)

\* PatternElement
Byte(b)  == [tag |-> "Byte", byte |-> b]
Wildcard == [tag |-> "Wildcard"]

\* a pattern comparison that lets a Byte element that is not the first
\* match any byte (mutant of pattern_matches_at)
pattern_matches_first_only(buf, pat, i) ==
    pat[1].tag = "Byte" => buf[i + 1] = pat[1].byte

\* the inner loop of scan_pattern: no element takes `continue 'outer`
pattern_matches_at(buf, pat, i) ==
    \A j \in 0..(Len(pat) - 1) :
        pat[j + 1].tag = "Byte" => buf[i + j + 1] = pat[j + 1].byte

\* scan_pattern: the start offsets 0..buffer.len().saturating_sub(pattern.len()),
\* end excluded, in ascending order
scan_pattern(buf, pat, base) ==
    LET end     == saturating_sub(Len(buf), Len(pat))
        starts  == [k \in 1..end |-> k - 1]
        hit(i)  == pattern_matches_at(buf, pat, i)
        hits    == SelectSeq(starts, hit)
    IN [k \in 1..Len(hits) |-> base + hits[k]]

\* the end-to-end scenario of the pattern scanner
PatternScenario ==
    [base    |-> 8192,
     buffer  |-> <<65, 153, 67, 65, 0, 67>>,
     pattern |-> <<Byte(65), Wildcard, Byte(67)>>]

\* pattern elements and patterns of the model
PatternElements == {Byte(0), Byte(65), Byte(255), Wildcard}
Patterns ==
    UNION {[1..n -> PatternElements] : n \in 1..MaxPatternLen} \cup {PatternScenario.pattern}

InitPattern ==
    /\ \/ InitRegion
       \/ /\ buffer = PatternScenario.buffer
          /\ base_addr = PatternScenario.base
          /\ results = <<>>
          /\ status = "ready"
    /\ pattern \in Patterns
    /\ search_value = Bytes(<<>>)
    /\ alignment = 1
    /\ previous_results = None
    /\ compare_type = None
    /\ xref = <<>>
    /\ NoProcess

\* scan_pattern called on the buffer read from the region
PatternScan ==
    /\ status = "ready"
    /\ results' = scan_pattern(buffer, pattern, base_addr)
    /\ status' = "returned"
    /\ UNCHANGED <<buffer, base_addr, search_value, alignment, previous_results,
                   compare_type, pattern, xref,
                   maps, request, reads>>

NextPattern == TargetWrites \/ PatternScan

SpecPattern == InitPattern /\ [][NextPattern]_vars

-----------------------------------------------------------------------------
(* Claims about the pattern scanner *)

\* the pattern fits at start offset i and each Byte element equals the byte
\* under it
PatternOccursAt(i) ==
    /\ i + Len(pattern) <= Len(buffer)
    /\ \A j \in 1..Len(pattern) :
          pattern[j].tag = "Byte" => buffer[i + j] = pattern[j].byte

PatternReturned == status = "returned" /\ Len(pattern) > 0

\* C4: a pattern scan emits base + i for every start offset i in
\* 0..=buffer_len - pattern_len at which each Byte element equals
\* buffer[i+j]; in particular "41 ? 43" over 41 99 43 41 00 43 at base
\* 0x2000 yields 0x2000 and 0x2003.
C4_PatternComplete ==
    PatternReturned =>
        /\ \A i \in 0..Len(buffer) :
              PatternOccursAt(i) =>
                  \E k \in 1..Len(results) : results[k] = base_addr + i
        /\ (/\ buffer = PatternScenario.buffer
            /\ pattern = PatternScenario.pattern
            /\ base_addr = PatternScenario.base)
              => results = <<8192, 8195>>

\* C5: every address a pattern scan emits is base + i for a start offset i
\* with i + pattern_len <= buffer_len at which every Byte element equals
\* buffer[i+j], and the addresses are emitted in strictly ascending order.
C5_PatternSoundOrdered ==
    PatternReturned =>
        /\ \A k \in 1..Len(results) :
              /\ results[k] - base_addr >= 0
              /\ PatternOccursAt(results[k] - base_addr)
        /\ \A k \in 1..(Len(results) - 1) : results[k] < results[k + 1]

\* C5 witness: a pattern with a Byte element after a wildcard matched at
\* two offsets at least
C5_Witness ==
    /\ PatternReturned
    /\ Len(results) >= 2
    /\ Len(pattern) >= 2
    /\ pattern[1].tag = "Wildcard"
    /\ pattern[2].tag = "Byte" /\ pattern[2].byte # 0

-----------------------------------------------------------------------------
(* Incremental value scan *)

\* region buffers of an incremental scan: room for one or two i64 windows,
\* zero-filled, at most one byte set by the target process: the lowest
\* byte or the sign byte of a window
IncrementalBuffers ==
    LET lens == {size_of_i64, size_of_i64 + 1}
    IN {Zeros(n) : n \in lens}
       \cup {[Zeros(n) EXCEPT ![k] = 255] : n \in lens, k \in {1, size_of_i64}}
       \cup {[Zeros(size_of_i64 + 1) EXCEPT ![size_of_i64 + 1] = 255]}

\* search values of an incremental scan: every type
IncrementalValues ==
    IntegerTargets
    \cup {Float(f32_from_ne_bytes(Zeros(size_of_f32))),
          Double(f64_from_ne_bytes(Zeros(size_of_f64))),
          String(<<65>>), Bytes(<<255>>)}

\* entries of the previous-result table: an address below the base by
\* more than a value, just below the base, at the base, one byte in, and
\* past the end of the region, each with an Int value; and entries whose
\* address or value is missing or is no Int
PrevEntries(base, len) ==
    {[address |-> Some(a), value |-> Some(IntVar(I64(v)))] :
        a \in {base - size_of_i64 - 1, base - 1, base, base + 1, base + len},
        v \in {0, 255}}
    \cup {[address |-> None, value |-> Some(IntVar(I64(0)))],
          [address |-> Some(base), value |-> None],
          [address |-> Some(base), value |-> Some(FloatVar)]}

InitIncremental ==
    /\ buffer \in IncrementalBuffers
    /\ base_addr \in Bases
    /\ results = <<>>
    /\ status = "ready"
    /\ search_value \in IncrementalValues
    /\ alignment = 1
    /\ previous_results \in
          {Some(t) : t \in UNION {[1..n -> PrevEntries(base_addr, Len(buffer))] :
                                      n \in 0..MaxPrev}}
    /\ compare_type \in {Some(c) : c \in CompareTypes}
    /\ pattern = <<>>
    /\ xref = <<>>
    /\ NoProcess

\* scan_buffer called with previous results and a compare type
IncrementalScan ==
    /\ status = "ready"
    /\ previous_results # None
    /\ \E checks \in BOOLEAN :
          LET r == scan_buffer(buffer, search_value, alignment, base_addr,
                               previous_results, compare_type, checks)
          IN /\ results' = r.results
             /\ status' = IF r.fault THEN "panicked" ELSE "returned"
    /\ UNCHANGED <<buffer, base_addr, search_value, alignment, previous_results,
                   compare_type, pattern, xref,
                   maps, request, reads>>

NextIncremental == IncrementalScan

SpecIncremental == InitIncremental /\ [][NextIncremental]_vars

-----------------------------------------------------------------------------
(* Claims about the incremental value scan *)

IncrementalReturned == status = "returned" /\ previous_results # None

\* the previous-result table of the scan
PrevTable == previous_results[1]

\* how many results of `rs` carry address a
Count(rs, a) == Cardinality({i \in 1..Len(rs) : rs[i].address = a})

\* entry k has an address at which a value of n bytes lies inside the
\* region buffer
EntryInBounds(k, n) ==
    /\ PrevTable[k].address # None
    /\ PrevTable[k].address[1] >= base_addr
    /\ PrevTable[k].address[1] - base_addr + n <= Len(buffer)

\* entry k stores an integer under "value"
EntryHasInt(k) ==
    PrevTable[k].value # None /\ PrevTable[k].value[1].type = "Int"

\* the i64 in memory at the address of entry k
CurrentInt(k) ==
    i64_from_ne_bytes(Slice(buffer, PrevTable[k].address[1] - base_addr, size_of_i64))

\* the scan of the state with another compare type, under the same build
ScanWith(cmp, checks) ==
    scan_buffer(buffer, search_value, alignment, base_addr,
                previous_results, Some(cmp), checks)

Complement(cmp) == IF cmp = "Changed" THEN "Unchanged" ELSE "Changed"

\* C6: an incremental scan emits no address that is absent from the
\* previous-result table it was given.
C6_IncrementalSubset ==
    IncrementalReturned =>
        \A i \in 1..Len(results) :
            \E k \in 1..Len(PrevTable) :
                PrevTable[k].address = Some(results[i].address)

\* C6 witness: an incremental scan kept one previous address and dropped
\* another
C6_Witness ==
    /\ IncrementalReturned
    /\ Len(results) = 1
    /\ \E k \in 1..Len(PrevTable) :
          /\ EntryInBounds(k, size(search_value))
          /\ PrevTable[k].address # Some(results[1].address)

\* C7: for every value type, a previous result (an address with a stored
\* value) inside the region buffer is emitted by the Changed scan iff the
\* Unchanged scan does not emit it.
C7_ChangedUnchangedEveryType ==
    (IncrementalReturned /\ compare_type[1] \in {"Changed", "Unchanged"}) =>
        \A checks \in BOOLEAN :
            LET mine  == ScanWith(compare_type[1], checks)
                other == ScanWith(Complement(compare_type[1]), checks)
            IN (~mine.fault /\ mine.results = results) =>
                \A k \in 1..Len(PrevTable) :
                    (EntryInBounds(k, size(search_value)) /\ PrevTable[k].value # None) =>
                        (Count(results, PrevTable[k].address[1]) > 0)
                            # (Count(other.results, PrevTable[k].address[1]) > 0)

\* the relation the compare type asks of entry k
Relation(k) ==
    LET cmp == compare_type[1]
        cur == CurrentInt(k)
    IN CASE cmp = "Equal"     -> cur = search_value.val
         [] cmp = "NotEqual"  -> cur # search_value.val
         [] cmp = "Greater"   -> I64Less(search_value.val, cur)
         [] cmp = "Less"      -> I64Less(cur, search_value.val)
         [] cmp = "Changed"   -> EntryHasInt(k) /\ cur # PrevTable[k].value[1].int
         [] cmp = "Unchanged" -> EntryHasInt(k) /\ cur = PrevTable[k].value[1].int

\* C8 as stated: in an Integer scan a previous-result address in bounds of
\* the region is emitted exactly when the current value stands in the
\* requested relation to the target literal (Equal, NotEqual, Greater,
\* Less) or to the stored value (Changed, Unchanged).
C8_IntegerRelation ==
    (IncrementalReturned /\ search_value.tag = "Integer") =>
        \A k \in 1..Len(PrevTable) :
            EntryInBounds(k, size_of_i64) =>
                Count(results, PrevTable[k].address[1])
                = Cardinality({j \in 1..Len(PrevTable) :
                      PrevTable[j].address = PrevTable[k].address /\ Relation(j)})

\* C8 amended: in an Integer scan a previous result in bounds of the region
\* that stores an integer is emitted exactly when the current value stands
\* in the requested relation to the target literal or to the stored value;
\* a previous result that stores no integer is never emitted.
C8_IntegerRelationStoredInt ==
    (IncrementalReturned /\ search_value.tag = "Integer") =>
        \A k \in 1..Len(PrevTable) :
            EntryInBounds(k, size_of_i64) =>
                Count(results, PrevTable[k].address[1])
                = Cardinality({j \in 1..Len(PrevTable) :
                      /\ PrevTable[j].address = PrevTable[k].address
                      /\ EntryHasInt(j)
                      /\ Relation(j)})

\* C8 witness: a Greater scan against the literal 0 that kept a positive
\* value and dropped a negative one
C8_Witness ==
    /\ IncrementalReturned
    /\ compare_type = Some("Greater")
    /\ search_value = Integer(I64(0))
    /\ Len(results) = 1
    /\ \E k \in 1..Len(PrevTable) :
          /\ EntryInBounds(k, size_of_i64) /\ EntryHasInt(k)
          /\ I64Less(CurrentInt(k), I64(0))

\* C9: a previous-result address that is out of bounds for the region
\* (below the base, or with offset + value_size beyond the buffer end) is
\* skipped: the scan does not fault, emits nothing for it, and still
\* processes the other previous addresses.
C9_OutOfBoundsSkipped ==
    (status # "ready" /\ previous_results # None) =>
        /\ status = "returned"
        /\ \A i \in 1..Len(results) :
              /\ results[i].address >= base_addr
              /\ results[i].address - base_addr + size(search_value) <= Len(buffer)
        /\ search_value.tag = "Integer" =>
              \A k \in 1..Len(PrevTable) :
                  (EntryInBounds(k, size_of_i64) /\ EntryHasInt(k) /\ Relation(k))
                      => Count(results, PrevTable[k].address[1]) > 0

-----------------------------------------------------------------------------
(* Instruction decoder (x86-64), for the opcodes of the modelled code bytes. *)
(* An instruction is [address, size, mnemonic, is_call, is_jump, operands];  *)
(* an operand is an immediate, a memory operand with its displacement, or a  *)
(* register.                                                                 *)

Imm(v)  == [type |-> "Imm", imm |-> v, disp |-> 0]
Mem(d)  == [type |-> "Mem", imm |-> 0, disp |-> d]
Reg     == [type |-> "Reg", imm |-> 0, disp |-> 0]

\* sign-extended little-endian displacement or immediate
sext8(b)  == IF b >= 128 THEN b - 256 ELSE b
sext32(b) == b[1] + 256 * b[2] + 65536 * b[3] + 16777216 * sext8(b[4])

\* The ModRM byte at 0-based position q of `code`, with the SIB byte and
\* displacement it announces: [ok, len, is_mem, reg, disp]
ModRM(code, q) ==
    IF q + 1 > Len(code) THEN [ok |-> FALSE, len |-> 0, is_mem |-> FALSE, reg |-> 0, disp |-> 0]
    ELSE
    LET m        == code[q + 1]
        mod      == m \div 64
        reg      == (m \div 8) % 8
        rm       == m % 8
        has_sib  == mod # 3 /\ rm = 4
        sib_ok   == ~has_sib \/ q + 2 <= Len(code)
        base5    == has_sib /\ sib_ok /\ code[q + 2] % 8 = 5
        dispsize == CASE mod = 3 -> 0
                      [] mod = 0 -> IF rm = 5 \/ base5 THEN 4 ELSE 0
                      [] mod = 1 -> 1
                      [] mod = 2 -> 4
        dstart   == q + 1 + (IF has_sib THEN 1 ELSE 0)
        len      == 1 + (IF has_sib THEN 1 ELSE 0) + dispsize
        ok       == sib_ok /\ q + len <= Len(code)
    IN [ok     |-> ok,
        len    |-> len,
        is_mem |-> mod # 3,
        reg    |-> reg,
        disp   |-> IF ~ok \/ dispsize = 0 THEN 0
                   ELSE IF dispsize = 1 THEN sext8(code[dstart + 1])
                   ELSE sext32(Slice(code, dstart, 4))]

Invalid == [size |-> 0]

\* One instruction at 0-based position p of `code`, which is loaded at
\* `address`; size 0 when the bytes decode to no instruction.  The
\* immediate of a relative call or jump is the absolute target,
\* address + size + displacement, as the decoder reports it.
Decode(code, address, p) ==
    LET op   == code[p + 1]
        at   == address + p
        room == Len(code) - p
        insn(n, name, call, jump, ops) ==
            [address |-> at, size |-> n, mnemonic |-> name,
             is_call |-> call, is_jump |-> jump, operands |-> ops]
        modrm == ModRM(code, p + 1)
        rmop  == IF modrm.is_mem THEN Mem(modrm.disp) ELSE Reg
    IN CASE op = 232 ->                                   \* E8 rel32
              IF room < 5 THEN Invalid
              ELSE insn(5, "call", TRUE, FALSE,
                        <<Imm(at + 5 + sext32(Slice(code, p + 1, 4)))>>)
         [] op = 233 ->                                   \* E9 rel32
              IF room < 5 THEN Invalid
              ELSE insn(5, "jmp", FALSE, TRUE,
                        <<Imm(at + 5 + sext32(Slice(code, p + 1, 4)))>>)
         [] op = 144 -> insn(1, "nop", FALSE, FALSE, <<>>)  \* 90
         [] op = 251 -> insn(1, "sti", FALSE, FALSE, <<>>)  \* FB
         [] op = 21 ->                                    \* 15 imm32
              IF room < 5 THEN Invalid
              ELSE insn(5, "adc", FALSE, FALSE,
                        <<Reg, Imm(sext32(Slice(code, p + 1, 4)))>>)
         [] op = 0 ->                                     \* 00 /r
              IF ~modrm.ok THEN Invalid
              ELSE insn(1 + modrm.len, "add", FALSE, FALSE, <<rmop, Reg>>)
         [] op = 255 ->                                   \* FF /digit
              IF ~modrm.ok THEN Invalid
              ELSE CASE modrm.reg = 0 -> insn(1 + modrm.len, "inc", FALSE, FALSE, <<rmop>>)
                     [] modrm.reg = 1 -> insn(1 + modrm.len, "dec", FALSE, FALSE, <<rmop>>)
                     [] modrm.reg = 2 -> insn(1 + modrm.len, "call", TRUE, FALSE, <<rmop>>)
                     [] modrm.reg = 3 ->
                          IF modrm.is_mem
                          THEN insn(1 + modrm.len, "lcall", TRUE, FALSE, <<rmop>>)
                          ELSE Invalid
                     [] modrm.reg = 4 -> insn(1 + modrm.len, "jmp", FALSE, TRUE, <<rmop>>)
                     [] modrm.reg = 5 ->
                          IF modrm.is_mem
                          THEN insn(1 + modrm.len, "ljmp", FALSE, TRUE, <<rmop>>)
                          ELSE Invalid
                     [] modrm.reg = 6 -> insn(1 + modrm.len, "push", FALSE, FALSE, <<rmop>>)
                     [] modrm.reg = 7 -> Invalid

\* Capstone::disasm_all: instructions decoded one after the other from
\* position p until the bytes end or decode to no instruction
RECURSIVE disasm_from(_, _, _)
disasm_from(code, address, p) ==
    IF p >= Len(code) THEN <<>>
    ELSE LET i == Decode(code, address, p)
         IN IF i.size = 0 THEN <<>>
            ELSE <<i>> \o disasm_from(code, address, p + i.size)

disasm_all(code, address) == disasm_from(code, address, 0)

-----------------------------------------------------------------------------
(* Xref scanner *)

\* the buffer offsets 0..end-1, ascending
Offsets(end) == [i \in 1..end |-> i - 1]

\* the candidate offsets: E8, then E9 if requested, then FF 15 if requested
find_potential_call_offsets(buf, include_jumps, include_indirect) ==
    LET n == Len(buf)
        isE8(i)   == buf[i + 1] = 232
        isE9(i)   == buf[i + 1] = 233
        isFF15(i) == buf[i + 1] = 255 /\ buf[i + 2] = 21
    IN SelectSeq(Offsets(saturating_sub(n, 5)), isE8)
       \o (IF include_jumps
            THEN SelectSeq(Offsets(saturating_sub(n, 5)), isE9) ELSE <<>>)
       \o (IF include_indirect
            THEN SelectSeq(Offsets(saturating_sub(n, 6)), isFF15) ELSE <<>>)

\* Call for a call-group instruction, Jump for a jump-group one
reference_kind(insn) ==
    IF insn.is_call THEN Some("Call")
    ELSE IF insn.is_jump THEN Some("Jump")
    ELSE None

\* the immediate arm with the raw immediate as the only match (mutant of
\* imm_reference)
imm_reference_raw_only(insn, op, target_addr) ==
    IF op.imm = target_addr THEN reference_kind(insn) ELSE None

\* the immediate arm with the computed target as the only match (mutant of
\* imm_reference)
imm_reference_relative_only(insn, op, target_addr) ==
    IF insn.address + insn.size + op.imm = target_addr
    THEN reference_kind(insn) ELSE None

\* the immediate arm: the raw immediate or address + size + immediate
\* (wrapping) equals the target, for a call or a jump
imm_reference(insn, op, target_addr) ==
    LET calculated_target == insn.address + insn.size + op.imm
    IN IF op.imm = target_addr /\ reference_kind(insn) # None
       THEN reference_kind(insn)
       ELSE IF calculated_target = target_addr THEN reference_kind(insn)
       ELSE None

\* the operands from the k-th on, with memory operands of call-group
\* instructions only (mutant of operand_reference)
RECURSIVE operand_reference_calls_only(_, _, _, _)
operand_reference_calls_only(insn, target_addr, include_indirect, k) ==
    IF k > Len(insn.operands) THEN None
    ELSE LET op == insn.operands[k]
         IN CASE op.type = "Imm" ->
                   IF imm_reference(insn, op, target_addr) # None
                   THEN imm_reference(insn, op, target_addr)
                   ELSE operand_reference_calls_only(insn, target_addr,
                                                     include_indirect, k + 1)
              [] op.type = "Mem" ->
                   IF include_indirect /\ insn.is_call /\ op.disp = target_addr
                   THEN Some("Indirect")
                   ELSE operand_reference_calls_only(insn, target_addr,
                                                     include_indirect, k + 1)
              [] op.type = "Reg" ->
                   operand_reference_calls_only(insn, target_addr,
                                                include_indirect, k + 1)

\* the operands from the k-th on: the first one that references the target
\* decides, None when there is none
RECURSIVE operand_reference(_, _, _, _)
operand_reference(insn, target_addr, include_indirect, k) ==
    IF k > Len(insn.operands) THEN None
    ELSE LET op == insn.operands[k]
         IN CASE op.type = "Imm" ->
                   IF imm_reference(insn, op, target_addr) # None
                   THEN imm_reference(insn, op, target_addr)
                   ELSE operand_reference(insn, target_addr, include_indirect, k + 1)
              [] op.type = "Mem" ->
                   IF include_indirect /\ op.disp = target_addr THEN Some("Indirect")
                   ELSE operand_reference(insn, target_addr, include_indirect, k + 1)
              [] op.type = "Reg" ->
                   operand_reference(insn, target_addr, include_indirect, k + 1)

\* the group filter applied to calls instead of jumps (mutant of
\* is_reference_to)
is_reference_to_call_filtered(insn, target_addr, include_jumps, include_indirect) ==
    IF insn.is_call /\ ~include_jumps THEN None
    ELSE operand_reference(insn, target_addr, include_indirect, 1)

\* jumps count as references whether or not they were requested (mutant
\* of is_reference_to)
is_reference_to_any_jump(insn, target_addr, include_jumps, include_indirect) ==
    operand_reference(insn, target_addr, include_indirect, 1)

is_reference_to(insn, target_addr, include_jumps, include_indirect) ==
    IF insn.is_jump /\ ~include_jumps THEN None
    ELSE operand_reference(insn, target_addr, include_indirect, 1)

\* one line of context: the address, bytes and mnemonic that are formatted
context_line(buf, base, insn) ==
    [address  |-> insn.address,
     bytes    |-> Slice(buf, insn.address - base, insn.size),
     mnemonic |-> insn.mnemonic]

\* get_instruction_context: the products and sums are usize arithmetic,
\* which panics on overflow in a build with overflow checks and wraps in
\* one without; the comparisons are unsigned
get_instruction_context(buf, ref_offset, context_count, base, checks) ==
    LET span         == wrapping(context_count * 15)
        behind       == wrapping(ref_offset + 15 + span)
        overflows    == \/ MulOverflows(context_count, 15)
                        \/ AddOverflows(ref_offset + 15, span)
        start_offset == IF U64Less(span, ref_offset) THEN ref_offset - span ELSE 0
        end_offset   == IF U64Less(behind, Len(buf)) THEN behind ELSE Len(buf)
        insns == disasm_all(Slice(buf, start_offset, end_offset - start_offset),
                            base + start_offset)
    IN IF (checks /\ overflows) \/ start_offset > end_offset
       THEN [fault |-> TRUE, context |-> <<>>]
       ELSE [fault   |-> FALSE,
             context |-> [k \in 1..Len(insns) |-> context_line(buf, base, insns[k])]]

\* the instructions decoded from the chunk around a candidate offset
xref_chunk(buf, base, offset) ==
    LET chunk_start == IF offset > 15 THEN offset - 15 ELSE 0
        chunk_end   == IF offset + 15 < Len(buf) THEN offset + 15 ELSE Len(buf)
    IN disasm_all(Slice(buf, chunk_start, chunk_end - chunk_start), base + chunk_start)

\* the XrefResults pushed for the hits of one candidate offset, `ctx` being
\* the outcome of get_instruction_context there
xref_hits(buf, base, x, offset, hits, ctx) ==
    IF ctx.fault THEN [fault |-> TRUE, results |-> <<>>]
    ELSE [fault   |-> FALSE,
          results |-> [k \in 1..Len(hits) |->
                          [address     |-> hits[k].address,
                           xref_type   |-> is_reference_to(hits[k], x.target_addr,
                                                           x.include_jumps,
                                                           x.include_indirect)[1],
                           instruction |-> hits[k].mnemonic,
                           context     |-> ctx.context]]]

\* the results of one candidate offset, and whether the context extraction
\* of a hit panicked
xref_candidate(buf, base, x, offset, checks) ==
    IF offset + 10 >= Len(buf) THEN [fault |-> FALSE, results |-> <<>>]
    ELSE LET insns == xref_chunk(buf, base, offset)
             hit(insn) ==
                 /\ insn.address - base <= offset
                 /\ offset < insn.address - base + insn.size
                 /\ is_reference_to(insn, x.target_addr, x.include_jumps,
                                    x.include_indirect) # None
             hits == SelectSeq(insns, hit)
         IN IF hits = <<>> THEN [fault |-> FALSE, results |-> <<>>]
            ELSE xref_hits(buf, base, x, offset, hits,
                           get_instruction_context(buf, offset, x.context_count,
                                                   base, checks))

\* the results found so far followed by those of the later candidates; a
\* panic loses the Vec of the region
xref_push(found, rest) ==
    IF rest.fault THEN [fault |-> TRUE, results |-> <<>>]
    ELSE [fault |-> FALSE, results |-> found \o rest.results]

RECURSIVE xref_from(_, _, _, _, _, _)

\* the loop over the candidates behind the k-th, whose outcome is `first`
xref_next(first, buf, base, x, offsets, k, checks) ==
    IF first.fault THEN [fault |-> TRUE, results |-> <<>>]
    ELSE xref_push(first.results, xref_from(buf, base, x, offsets, k + 1, checks))

\* the loop of scan_region_for_xrefs over the candidates from the k-th on
xref_from(buf, base, x, offsets, k, checks) ==
    IF k > Len(offsets) THEN [fault |-> FALSE, results |-> <<>>]
    ELSE xref_next(xref_candidate(buf, base, x, offsets[k], checks),
                   buf, base, x, offsets, k, checks)

\* scan_region_for_xrefs over a region that was read into `buf`
scan_region_for_xrefs(buf, base, x, checks) ==
    xref_from(buf, base, x,
              find_potential_call_offsets(buf, x.include_jumps, x.include_indirect),
              1, checks)

\* the region of the end-to-end scenario: a call at offset 0 back to itself
XrefScenario ==
    [base   |-> 4096,
     buffer |-> <<232, 251, 255, 255, 255>> \o Zeros(27),
     target |-> 4096]

\* a region that holds a jump at offset 0 and a call at offset 5, both to
\* the address of the call
JumpThenCall ==
    [base   |-> 4096,
     buffer |-> <<233, 0, 0, 0, 0, 232, 251, 255, 255, 255>> \o Zeros(6)]

\* smallest region the xref shard scans
XrefMinSize == 10

\* opcode bytes the code region holds besides zeros
CodeBytes == {232, 233, 255, 21, 144}

\* counts of context instructions a scan asks for
ContextCounts == {0, 1, -1}

XrefBufLens == XrefMinSize..(XrefMinSize + MaxXrefSlack)

\* targets of an xref scan: the scenario's, the fall-through addresses of
\* the first two offsets, a zero displacement, the target of a call or
\* jump at offset 0 whose displacement is 0xE8, and address + size +
\* immediate of the call at offset 0 to its fall-through address
XrefTargets(base) ==
    {0, base, base + 5, base + 6, base + 5 + 232, base + 5 + base + 5}

XrefRequests(base) ==
    [target_addr : XrefTargets(base), include_jumps : BOOLEAN,
     include_indirect : BOOLEAN, context_count : ContextCounts]

InitXref ==
    /\ \/ /\ buffer \in {Zeros(n) : n \in XrefBufLens}
          /\ base_addr \in Bases
       \/ /\ buffer = XrefScenario.buffer
          /\ base_addr = XrefScenario.base
       \/ /\ buffer = JumpThenCall.buffer
          /\ base_addr = JumpThenCall.base
    /\ results = <<>>
    /\ status = "ready"
    /\ xref = <<>>
    /\ NoProcess
    /\ pattern = <<>>
    /\ search_value = Bytes(<<>>)
    /\ alignment = 1
    /\ previous_results = None
    /\ compare_type = None

\* the code region holds an opcode byte where it held a zero
CodeWrites ==
    /\ status = "ready"
    /\ Len(buffer) <= XrefMinSize + MaxXrefSlack
    /\ Cardinality({i \in 1..Len(buffer) : buffer[i] # 0}) < MaxXrefWrites
    /\ \E i \in 1..MaxCodeLen, b \in CodeBytes :
          /\ buffer[i] = 0
          /\ buffer' = [buffer EXCEPT ![i] = b]
    /\ UNCHANGED <<base_addr, search_value, alignment, previous_results,
                   compare_type, pattern, xref, results, status,
                   maps, request, reads>>

XrefScan ==
    /\ status = "ready"
    /\ \E x \in XrefRequests(base_addr), checks \in BOOLEAN :
          \E out \in {scan_region_for_xrefs(buffer, base_addr, x, checks)} :
             /\ xref' = x
             /\ results' = out.results
             /\ status' = IF out.fault THEN "panicked" ELSE "returned"
    /\ UNCHANGED <<buffer, base_addr, search_value, alignment, previous_results,
                   compare_type, pattern,
                   maps, request, reads>>

NextXref == CodeWrites \/ XrefScan

SpecXref == InitXref /\ [][NextXref]_vars

-----------------------------------------------------------------------------
(* Claims about the xref scanner *)

XrefReturned == status = "returned" /\ xref # <<>>

\* the bytes at offset o are E8 and a displacement that resolves to the target
RelativeCallTo(o, target) ==
    /\ o + 5 <= Len(buffer)
    /\ buffer[o + 1] = 232
    /\ base_addr + o + 5 + sext32(Slice(buffer, o + 1, 4)) = target

\* the decoder, run over the chunk around o, decodes a call that starts at o
DecodesCallAt(o) ==
    LET insns == xref_chunk(buffer, base_addr, o)
    IN \E k \in 1..Len(insns) : insns[k].address = base_addr + o /\ insns[k].is_call

\* C10: every relative call to the target that lies inside the buffer and
\* that the decoder decodes as a call at its offset o is emitted as a Call
\* result at address base + o
C10_RelativeCallDetected ==
    XrefReturned =>
        \A o \in 0..(Len(buffer) - 1) :
            (RelativeCallTo(o, xref.target_addr) /\ DecodesCallAt(o)) =>
                \E k \in 1..Len(results) :
                    /\ results[k].address = base_addr + o
                    /\ results[k].xref_type = "Call"

\* the scan of the end-to-end scenario: the scenario region, its target,
\* jumps and indirect references disabled
XrefScenarioScanned ==
    /\ XrefReturned
    /\ buffer = XrefScenario.buffer
    /\ base_addr = XrefScenario.base
    /\ xref.target_addr = XrefScenario.target
    /\ ~xref.include_jumps
    /\ ~xref.include_indirect

\* C11: scanning region [0x1000, 0x1020) that holds E8 FB FF FF FF at
\* offset 0 for target 0x1000, jumps and indirect disabled, yields exactly
\* one result, of type Call, at address 0x1000.
C11_ScenarioOneCall ==
    XrefScenarioScanned =>
        /\ Len(results) = 1
        /\ results[1].address = 4096
        /\ results[1].xref_type = "Call"

\* C11 witness: the scenario was scanned and returned a call instruction
C11_Witness ==
    /\ XrefScenarioScanned
    /\ Len(results) > 0
    /\ results[1].instruction = "call"

\* C12: a result of type Jump is emitted only if jumps were requested, a
\* result of type Indirect only if indirect references were requested, and
\* no result is of type DataRef.
C12_FlagsBoundTypes ==
    XrefReturned =>
        \A k \in 1..Len(results) :
            /\ results[k].xref_type = "Jump" => xref.include_jumps
            /\ results[k].xref_type = "Indirect" => xref.include_indirect
            /\ results[k].xref_type \in {"Call", "Jump", "Indirect"}

\* C12 witness: jumps were not requested, and the call candidate at offset
\* 1 lies inside a jump to the target (E9 E8 00 00 00), which is not emitted
C12_Witness ==
    /\ XrefReturned
    /\ ~xref.include_jumps
    /\ Len(buffer) >= 12
    /\ buffer[1] = 233 /\ buffer[2] = 232
    /\ xref.target_addr = base_addr + 5 + 232
    /\ results = <<>>

\* the candidate offsets that the verification pass decodes around
VerifiedCandidates ==
    {o \in 0..(Len(buffer) - 1) :
        /\ \E k \in 1..Len(find_potential_call_offsets(buffer, xref.include_jumps,
                                                       xref.include_indirect)) :
              find_potential_call_offsets(buffer, xref.include_jumps,
                                          xref.include_indirect)[k] = o
        /\ o + 10 < Len(buffer)}

\* the decoded instructions that own a verified candidate
OwningInstructions ==
    {i \in UNION {{xref_chunk(buffer, base_addr, o)[k] :
                      k \in 1..Len(xref_chunk(buffer, base_addr, o))} :
                  o \in VerifiedCandidates} :
        \E o \in VerifiedCandidates :
            /\ i.address - base_addr <= o
            /\ o < i.address - base_addr + i.size}

\* the instruction has an immediate operand that is the target, raw or as
\* address + length + immediate
ImmediateIsTarget(i) ==
    \E k \in 1..Len(i.operands) :
        /\ i.operands[k].type = "Imm"
        /\ \/ i.operands[k].imm = xref.target_addr
           \/ i.address + i.size + i.operands[k].imm = xref.target_addr

HasImmediate(i) == \E k \in 1..Len(i.operands) : i.operands[k].type = "Imm"

\* the scan emitted the instruction with the given type
Emitted(i, type) ==
    \E k \in 1..Len(results) :
        results[k].address = i.address /\ results[k].xref_type = type

EmittedAtAll(i) == \E k \in 1..Len(results) : results[k].address = i.address

\* C13 as stated: an owning instruction of the call or jump group with an
\* immediate operand matches iff the raw immediate or address + length +
\* immediate equals the target; a call matches as Call, a jump as Jump.
C13_ImmediateMatch ==
    XrefReturned =>
        \A i \in OwningInstructions :
            ((i.is_call \/ i.is_jump) /\ HasImmediate(i)) =>
                /\ EmittedAtAll(i) <=> ImmediateIsTarget(i)
                /\ EmittedAtAll(i) => Emitted(i, IF i.is_call THEN "Call" ELSE "Jump")

\* C13 amended: the same for a call-group instruction, and for a jump-group
\* instruction when jumps were requested; a jump-group instruction never
\* matches when jumps were not requested.
C13_ImmediateMatchRequested ==
    XrefReturned =>
        \A i \in OwningInstructions :
            ((i.is_call \/ i.is_jump) /\ HasImmediate(i)) =>
                /\ EmittedAtAll(i) <=>
                      (ImmediateIsTarget(i) /\ (i.is_jump => xref.include_jumps))
                /\ EmittedAtAll(i) => Emitted(i, IF i.is_call THEN "Call" ELSE "Jump")

\* C13 witness: a call whose raw immediate is not the target, but whose
\* address + length + immediate is, was emitted as a Call
C13_Witness ==
    /\ XrefReturned
    /\ \E i \in OwningInstructions :
          /\ i.is_call /\ HasImmediate(i)
          /\ i.operands[1].imm # xref.target_addr
          /\ i.address + i.size + i.operands[1].imm = xref.target_addr
          /\ Emitted(i, "Call")

-----------------------------------------------------------------------------
(* is_reference_to on single instructions *)

\* 32-bit displacements and immediates, as little-endian bytes: 0, 0xE8, -5
Disp32s == {<<0, 0, 0, 0>>, <<232, 0, 0, 0>>, <<251, 255, 255, 255>>}

\* encodings of single instructions: call rel32, jmp rel32,
\* call [rip+d], jmp [rip+d], call [rax+d], jmp [rax+d], inc [rip+d],
\* add [rip+d], al, adc eax, imm32, add [rax], al, nop
InstructionCodes ==
    {op \o d : op \in {<<232>>, <<233>>, <<255, 21>>, <<255, 37>>, <<255, 144>>,
                       <<255, 160>>, <<255, 5>>, <<0, 5>>, <<21>>},
               d \in Disp32s}
    \cup {<<0, 0>>, <<144>>}

\* targets of the check: no address, 0xE8, the instruction's address, its
\* fall-through address, that address plus 0xE8, and address + size +
\* immediate of a call to the fall-through address
ReferenceTargets(addr) ==
    {0, 232, addr, addr + 5, addr + 5 + 232, addr + 5 + addr + 5}

InitReference ==
    /\ buffer \in InstructionCodes
    /\ base_addr \in Bases
    /\ results = <<>>
    /\ status = "ready"
    /\ xref = <<>>
    /\ NoProcess
    /\ pattern = <<>>
    /\ search_value = Bytes(<<>>)
    /\ alignment = 1
    /\ previous_results = None
    /\ compare_type = None

\* is_reference_to applied to the instruction the buffer decodes to
ReferenceCheck ==
    /\ status = "ready"
    /\ \E t \in ReferenceTargets(base_addr), j \in BOOLEAN, i \in BOOLEAN :
          /\ xref' = [target_addr |-> t, include_jumps |-> j,
                      include_indirect |-> i, context_count |-> 0]
          /\ results' = is_reference_to(Decode(buffer, base_addr, 0), t, j, i)
    /\ status' = "returned"
    /\ UNCHANGED <<buffer, base_addr, search_value, alignment, previous_results,
                   compare_type, pattern,
                   maps, request, reads>>

NextReference == ReferenceCheck

SpecReference == InitReference /\ [][NextReference]_vars

\* the instruction that was checked
CheckedInstruction == Decode(buffer, base_addr, 0)

\* the checked instruction has a memory operand whose displacement is the
\* target
MemoryDisplacementIsTarget ==
    \E k \in 1..Len(CheckedInstruction.operands) :
        /\ CheckedInstruction.operands[k].type = "Mem"
        /\ CheckedInstruction.operands[k].disp = xref.target_addr

\* C14 as stated: with indirect references enabled, an instruction with a
\* memory operand whose displacement equals the target yields Indirect,
\* whatever the include-jumps flag and the instruction's group.
C14_IndirectEveryGroup ==
    (status = "returned" /\ xref.include_indirect /\ MemoryDisplacementIsTarget) =>
        results = Some("Indirect")

\* C14 amended: the same, except for a jump-group instruction when jumps
\* were not requested, which yields nothing.
C14_IndirectUnlessJumpFiltered ==
    (status = "returned" /\ xref.include_indirect /\ MemoryDisplacementIsTarget) =>
        results = IF CheckedInstruction.is_jump /\ ~xref.include_jumps
                  THEN None
                  ELSE Some("Indirect")

\* C14 witness: an instruction that is neither call nor jump, with a memory
\* operand at the target, was classified Indirect while jumps were off
C14_Witness ==
    /\ status = "returned"
    /\ xref.include_indirect /\ ~xref.include_jumps
    /\ MemoryDisplacementIsTarget
    /\ ~CheckedInstruction.is_call /\ ~CheckedInstruction.is_jump
    /\ results = Some("Indirect")

-----------------------------------------------------------------------------
(* Protection filter *)

\* the PageType flags the filter reads, and one it does not
PageFlags == {"WRITEABLE", "NOEXEC", "READ_ONLY"}

\* page_type_to_rwx: the three characters of the derived string
page_type_to_rwx(page_type) ==
    <<"r",
      IF "WRITEABLE" \in page_type THEN "w" ELSE "-",
      IF "NOEXEC" \notin page_type THEN "x" ELSE "-">>

\* str::contains: the needle occurs in the haystack at some position
contains(hay, needle) ==
    \E i \in 0..(Len(hay) - Len(needle)) :
        \A j \in 1..Len(needle) : hay[i + j] = needle[j]

\* the filter's characters occur in the derived string in order, with gaps
\* allowed (mutant of protection_filter_matches)
protection_filter_matches_scattered(page_type, filter) ==
    \E pos \in [1..Len(filter) -> 1..3] :
        /\ \A j \in 1..Len(filter) : page_type_to_rwx(page_type)[pos[j]] = filter[j]
        /\ \A j \in 1..(Len(filter) - 1) : pos[j] < pos[j + 1]

protection_filter_matches(page_type, filter) ==
    contains(page_type_to_rwx(page_type), filter)

\* a mapped region as the process handle reports it, with the bytes it
\* holds and whether reading it succeeds
Region(base, len, page_type, readable, bytes) ==
    [base |-> base, size |-> len, page_type |-> page_type,
     readable |-> readable, bytes |-> bytes]

\* characters of a filter string
FilterChars == {"r", "w", "x", "-", "R"}

FilterStrings == UNION {[1..n -> FilterChars] : n \in 0..MaxFilterLen}

InitFilter ==
    /\ maps \in {<<Region(4096, DefaultMinSize, pt, TRUE, <<>>)>> : pt \in SUBSET PageFlags}
    /\ request = <<>>
    /\ reads = <<>>
    /\ buffer = <<>>
    /\ base_addr = 0
    /\ results = <<>>
    /\ status = "ready"
    /\ xref = <<>>
    /\ pattern = <<>>
    /\ search_value = Bytes(<<>>)
    /\ alignment = 1
    /\ previous_results = None
    /\ compare_type = None

\* protection_filter_matches applied to the region's page type
FilterCheck ==
    /\ status = "ready"
    /\ \E f \in FilterStrings :
          /\ request' = [protection |-> Some(f)]
          /\ results' = <<protection_filter_matches(maps[1].page_type, f)>>
    /\ status' = "returned"
    /\ UNCHANGED <<buffer, base_addr, search_value, alignment, previous_results,
                   compare_type, pattern, xref, maps, reads>>

NextFilter == FilterCheck

SpecFilter == InitFilter /\ [][NextFilter]_vars

\* the three-character string the claim derives for the checked region
DerivedString ==
    <<"r",
      IF "WRITEABLE" \in maps[1].page_type THEN "w" ELSE "-",
      IF "NOEXEC" \in maps[1].page_type THEN "-" ELSE "x">>

\* f is a contiguous run of d
IsSubstring(f, d) ==
    \E a \in 1..(Len(d) + 1) :
        /\ a + Len(f) - 1 <= Len(d)
        /\ SubSeq(d, a, a + Len(f) - 1) = f

FilterChecked == status = "returned" /\ request # <<>> /\ Len(maps) = 1

\* C15: the filter matches iff it is a contiguous substring of the derived
\* string "r", then "w" or "-", then "x" or "-"; so "r", "rw" and "wx"
\* match a region derived as "rwx" and "r-x" matches only "r-x".
C15_FilterSubstring ==
    FilterChecked =>
        /\ results[1] <=> IsSubstring(request.protection[1], DerivedString)
        /\ (DerivedString = <<"r", "w", "x">>
              /\ request.protection[1] \in {<<"r">>, <<"r", "w">>, <<"w", "x">>})
           => results[1]
        /\ (request.protection[1] = <<"r", "-", "x">> /\ results[1])
           => DerivedString = <<"r", "-", "x">>

\* C15 witness: the filter "rx" was checked against a region derived as
\* "rwx" and did not match
C15_Witness ==
    /\ FilterChecked
    /\ DerivedString = <<"r", "w", "x">>
    /\ request.protection[1] = <<"r", "x">>
    /\ results = <<FALSE>>

-----------------------------------------------------------------------------
(* Shard activations over a memory map *)

\* the filter closure without its protection test (mutant of
\* region_filter)
region_filter_ignoring_protection(map, min_size, max_size, protection) ==
    IF map.size < min_size THEN FALSE
    ELSE IF max_size # None /\ map.size > max_size[1] THEN FALSE
    ELSE TRUE

\* the filter closure of the value scanner: size bounds, then protection
region_filter(map, min_size, max_size, protection) ==
    IF map.size < min_size THEN FALSE
    ELSE IF max_size # None /\ map.size > max_size[1] THEN FALSE
    ELSE IF protection # None /\ ~protection_filter_matches(map.page_type, protection[1])
         THEN FALSE
    ELSE TRUE

\* the filter closure without its size test (mutant of
\* pattern_region_filter)
pattern_region_filter_ignoring_size(map, min_size, protection) ==
    IF protection # None /\ ~protection_filter_matches(map.page_type, protection[1])
    THEN FALSE
    ELSE TRUE

\* the filter closure of the pattern scanner: minimum size, then protection
pattern_region_filter(map, min_size, protection) ==
    IF map.size < min_size THEN FALSE
    ELSE IF protection # None /\ ~protection_filter_matches(map.page_type, protection[1])
         THEN FALSE
    ELSE TRUE

\* the filter closure of the xref scanner: protection only
xref_region_filter(map, protection) ==
    protection_filter_matches(map.page_type, protection)

\* the entry the value scanner stores for a match
result_entry(r, sv) ==
    [address |-> r.address,
     value   |-> CASE sv.tag = "Integer" -> r.value_int
                   [] sv.tag = "Float"   -> r.value_float
                   [] sv.tag = "Double"  -> r.value_double
                   [] sv.tag = "String"  -> r.value_string
                   [] sv.tag = "Bytes"   -> r.value_bytes]

\* process.read_raw_into over a whole region: the bytes, or None on error
read_raw_into(map) ==
    IF map.readable THEN Some(map.bytes) ELSE None

\* the loop of the value scanner over the filtered maps, from the k-th on:
\* the entries stored, the reads issued, and whether scan_buffer panicked.
\* Each region's entries are emplaced into the stored sequence before the
\* next region is read, so a panic in a later region leaves the entries of
\* the regions scanned before it in place.
RECURSIVE value_scan_from(_, _, _, _, _, _, _)
value_scan_from(fm, k, sv, align, prev, cmp, checks) ==
    IF k > Len(fm) THEN [fault |-> FALSE, results |-> <<>>, reads |-> <<>>]
    ELSE IF fm[k].size < size(sv)
    THEN value_scan_from(fm, k + 1, sv, align, prev, cmp, checks)
    ELSE
    LET read == read_raw_into(fm[k])
        matches == scan_buffer(read[1], sv, align, fm[k].base, prev, cmp, checks)
        rest == value_scan_from(fm, k + 1, sv, align, prev, cmp, checks)
    IN IF read = None
       THEN [rest EXCEPT !.reads = <<fm[k].base>> \o rest.reads]
       ELSE IF matches.fault
       THEN [fault |-> TRUE, results |-> <<>>, reads |-> <<fm[k].base>>]
       ELSE [fault   |-> rest.fault,
             results |-> [i \in 1..Len(matches.results) |->
                             result_entry(matches.results[i], sv)]
                         \o rest.results,
             reads   |-> <<fm[k].base>> \o rest.reads]

\* MemflowMemoryScanShard::activate with valid parameters
memory_scan_activate(mm, req, sv, align, prev, cmp, checks) ==
    LET keep(map) == region_filter(map, req.min_size, req.max_size, req.protection)
    IN value_scan_from(SelectSeq(mm, keep), 1, sv, align, prev, cmp, checks)

\* the loop of the pattern scanner over the filtered maps, from the k-th on
RECURSIVE pattern_scan_from(_, _, _)
pattern_scan_from(fm, k, pat) ==
    IF k > Len(fm) THEN [fault |-> FALSE, results |-> <<>>, reads |-> <<>>]
    ELSE IF fm[k].size < Len(pat) THEN pattern_scan_from(fm, k + 1, pat)
    ELSE
    LET read == read_raw_into(fm[k])
        rest == pattern_scan_from(fm, k + 1, pat)
    IN [fault   |-> FALSE,
        results |-> (IF read = None THEN <<>>
                     ELSE scan_pattern(read[1], pat, fm[k].base)) \o rest.results,
        reads   |-> <<fm[k].base>> \o rest.reads]

\* MemflowPatternScanShard::activate with a parsed, non-empty pattern
pattern_scan_activate(mm, req, pat) ==
    LET keep(map) == pattern_region_filter(map, req.min_size, req.protection)
    IN pattern_scan_from(SelectSeq(mm, keep), 1, pat)

\* the entries of a region followed by the outcome of the later regions
xref_region_push(found, base, rest) ==
    [fault   |-> rest.fault,
     results |-> found \o rest.results,
     reads   |-> <<base>> \o rest.reads]

RECURSIVE xref_scan_from(_, _, _, _)

\* the loop over the regions behind the k-th, whose scan ended as `found`:
\* the entries of a region are emplaced into the stored sequence before the
\* next region is scanned, and a panic ends the loop
xref_region_next(found, fm, k, x, checks) ==
    IF found.fault
    THEN [fault |-> TRUE, results |-> <<>>, reads |-> <<fm[k].base>>]
    ELSE xref_region_push(found.results, fm[k].base,
                          xref_scan_from(fm, k + 1, x, checks))

\* the loop of the xref scanner over the filtered maps, from the k-th on;
\* scan_region_for_xrefs reads the region and returns nothing when the
\* read fails
xref_scan_from(fm, k, x, checks) ==
    IF k > Len(fm) THEN [fault |-> FALSE, results |-> <<>>, reads |-> <<>>]
    ELSE IF fm[k].size < XrefMinSize THEN xref_scan_from(fm, k + 1, x, checks)
    ELSE IF read_raw_into(fm[k]) = None
    THEN xref_region_next([fault |-> FALSE, results |-> <<>>], fm, k, x, checks)
    ELSE xref_region_next(scan_region_for_xrefs(read_raw_into(fm[k])[1], fm[k].base,
                                                x, checks),
                          fm, k, x, checks)

\* MemflowFunctionXrefShard::activate
xref_activate(mm, req, x, checks) ==
    LET keep(map) == xref_region_filter(map, req.protection[1])
    IN xref_scan_from(SelectSeq(mm, keep), 1, x, checks)

\* base address of the k-th mapped region
RegionBase(k) == 4096 * k

\* what a small region holds: nine or ten zero bytes, or a call to the
\* address behind it followed by zeros
RegionImages == {Zeros(9), Zeros(10), <<232, 0, 0, 0, 0>> \o Zeros(7)}

\* page types of the mapped regions: r-x, r-- and rw-
RegionPageTypes == {{}, {"NOEXEC"}, {"WRITEABLE", "NOEXEC"}}

\* the memory maps of the process: regions in ascending address order
MemoryMaps ==
    UNION {[1..n -> [image : RegionImages, page_type : RegionPageTypes,
                     readable : BOOLEAN]] : n \in 0..MaxRegions}

MapOf(choice) ==
    [k \in 1..Len(choice) |->
        Region(RegionBase(k), Len(choice[k].image), choice[k].page_type,
               choice[k].readable, choice[k].image)]

\* size bounds and protection filters of the activations
MinSizes == {1, 10}
MaxSizes == {None, Some(10)}
Protections == {<<"x">>, <<"r", "w">>}

\* previous-result tables of the activations: up to two results of an
\* earlier Integer scan, in the table's iteration order
ShardPrevEntries ==
    {[address |-> Some(a), value |-> Some(IntVar(I64(0)))] :
        a \in {RegionBase(1), RegionBase(1) + 1, RegionBase(2)}}

ShardPrevTables == UNION {[1..n -> ShardPrevEntries] : n \in 0..2}

\* patterns of the activations
ShardPatterns == {<<Byte(0)>>, <<Byte(232), Wildcard>>}

\* xref parameters of the activations: the address behind the call of the
\* first or second region
ShardXrefs ==
    [target_addr : {RegionBase(1) + 5, RegionBase(2) + 5}, include_jumps : BOOLEAN,
     include_indirect : {FALSE}, context_count : {0, -1}]

InitProcess ==
    /\ maps \in {MapOf(c) : c \in MemoryMaps}
    /\ request = <<>>
    /\ reads = <<>>
    /\ buffer = <<>>
    /\ base_addr = 0
    /\ results = <<>>
    /\ status = "ready"
    /\ xref = <<>>
    /\ pattern = <<>>
    /\ search_value = Bytes(<<>>)
    /\ alignment = 1
    /\ previous_results = None
    /\ compare_type = None

\* the value scanner is activated on the process
MemoryScanActivate ==
    /\ status = "ready"
    /\ \E min \in MinSizes, max \in MaxSizes,
          prot \in {None} \cup {Some(f) : f \in Protections},
          prev \in {None} \cup {Some(t) : t \in ShardPrevTables},
          checks \in BOOLEAN :
          LET req == [scanner |-> "value", min_size |-> min, max_size |-> max,
                      protection |-> prot]
              cmp == IF prev = None THEN None ELSE Some("Equal")
              out == memory_scan_activate(maps, req, Integer(I64(0)), 1, prev, cmp, checks)
          IN /\ request' = req
             /\ search_value' = Integer(I64(0))
             /\ previous_results' = prev
             /\ compare_type' = cmp
             /\ results' = out.results
             /\ reads' = out.reads
             /\ status' = IF out.fault THEN "panicked" ELSE "returned"
    /\ UNCHANGED <<buffer, base_addr, alignment, pattern, xref, maps>>

\* the pattern scanner is activated on the process
PatternScanActivate ==
    /\ status = "ready"
    /\ \E min \in MinSizes, prot \in {None} \cup {Some(f) : f \in Protections},
          pat \in ShardPatterns :
          LET req == [scanner |-> "pattern", min_size |-> min, max_size |-> None,
                      protection |-> prot]
              out == pattern_scan_activate(maps, req, pat)
          IN /\ request' = req
             /\ pattern' = pat
             /\ results' = out.results
             /\ reads' = out.reads
             /\ status' = "returned"
    /\ UNCHANGED <<buffer, base_addr, search_value, alignment, previous_results,
                   compare_type, xref, maps>>

\* the xref scanner is activated on the process
XrefActivate ==
    /\ status = "ready"
    /\ \E prot \in Protections, x \in ShardXrefs :
          LET req == [scanner |-> "xref", min_size |-> 0, max_size |-> None,
                      protection |-> Some(prot)]
          IN \E checks \in BOOLEAN :
             \E out \in {xref_activate(maps, req, x, checks)} :
                /\ request' = req
                /\ xref' = x
                /\ results' = out.results
                /\ reads' = out.reads
                /\ status' = IF out.fault THEN "panicked" ELSE "returned"
    /\ UNCHANGED <<buffer, base_addr, search_value, alignment, previous_results,
                   compare_type, pattern, maps>>

NextProcess == MemoryScanActivate \/ PatternScanActivate \/ XrefActivate

SpecProcess == InitProcess /\ [][NextProcess]_vars

-----------------------------------------------------------------------------
(* Claims about the activations *)

Activated == status # "ready" /\ request # <<>>

\* the activation of the state over another memory map
ActivationOver(mm, checks) ==
    CASE request.scanner = "value" ->
           memory_scan_activate(mm, request, search_value, alignment,
                                previous_results, compare_type, checks)
      [] request.scanner = "pattern" -> pattern_scan_activate(mm, request, pattern)
      [] request.scanner = "xref" -> xref_activate(mm, request, xref, checks)

\* the address of the k-th result of the activation
ResultAddress(k) ==
    IF request.scanner = "pattern" THEN results[k] ELSE results[k].address

IsReadable(map) == map.readable

\* the region contains the address
InRegion(map, a) == map.base <= a /\ a < map.base + map.size

\* the read of a region was issued and failed
ReadFailed ==
    \E j \in 1..Len(maps) :
        ~maps[j].readable /\ \E i \in 1..Len(reads) : reads[i] = maps[j].base

\* C16: a region whose read fails is skipped without failing the call: in
\* every scanner the call succeeds, its output is that of the same scan
\* over the readable regions only, and no result lies in a failed region.
C16_ReadFailureSkipped ==
    (Activated /\ ReadFailed) =>
        /\ status = "returned"
        /\ \E checks \in BOOLEAN :
              results = ActivationOver(SelectSeq(maps, IsReadable), checks).results
        /\ \A k \in 1..Len(results), j \in 1..Len(maps) :
              InRegion(maps[j], ResultAddress(k)) => maps[j].readable

\* the three-character string derived from a region's page type
Derived(map) ==
    <<"r",
      IF "WRITEABLE" \in map.page_type THEN "w" ELSE "-",
      IF "NOEXEC" \in map.page_type THEN "-" ELSE "x">>

\* the region satisfies the size bounds and the protection filter of the
\* request
PassesFilters(map) ==
    /\ map.size >= request.min_size
    /\ request.max_size # None => map.size <= request.max_size[1]
    /\ request.protection # None => IsSubstring(request.protection[1], Derived(map))

\* a read of the region was issued
WasRead(map) == \E i \in 1..Len(reads) : reads[i] = map.base

\* C17: every result address lies inside [base, base + size) of a region
\* that passed the filters and was read successfully in this activation, in
\* first-pass mode, in incremental mode and for xref results.
C17_AddressInReadRegion ==
    (Activated /\ status = "returned") =>
        \A k \in 1..Len(results) :
            \E j \in 1..Len(maps) :
                /\ InRegion(maps[j], ResultAddress(k))
                /\ PassesFilters(maps[j])
                /\ maps[j].readable
                /\ WasRead(maps[j])

\* C17 witness: an incremental activation returned a result although one
\* of the previous addresses lies in a region that was not read
C17_Witness ==
    /\ Activated
    /\ status = "returned"
    /\ previous_results # None
    /\ Len(results) > 0
    /\ \E e \in 1..Len(previous_results[1]), j \in 1..Len(maps) :
          /\ InRegion(maps[j], previous_results[1][e].address[1])
          /\ ~WasRead(maps[j])

\* C18: a region that fails the size bounds or the protection filter of
\* the activation is never read, in the value, pattern and xref scanners.
C18_FilteredNeverRead ==
    Activated =>
        \A j \in 1..Len(maps) : ~PassesFilters(maps[j]) => ~WasRead(maps[j])

\* C18 witness: an activation read one region and left alone a readable
\* region that is too small for its MinSize
C18_Witness ==
    /\ Activated
    /\ \E i, j \in 1..Len(maps) :
          /\ WasRead(maps[i])
          /\ maps[j].readable
          /\ maps[j].size < request.min_size
          /\ ~WasRead(maps[j])

\* the index in the enumeration of the region that contains the address
RegionIndex(a) == CHOOSE j \in 1..Len(maps) : InRegion(maps[j], a)

ValueScanReturned ==
    Activated /\ status = "returned" /\ request.scanner = "value"

\* results of an earlier region precede those of a later one
RegionOrdered ==
    \A k, l \in 1..Len(results) :
        k < l => RegionIndex(results[k].address) <= RegionIndex(results[l].address)

\* within one region the result addresses ascend
OffsetOrdered ==
    \A k, l \in 1..Len(results) :
        (k < l /\ RegionIndex(results[k].address) = RegionIndex(results[l].address))
            => results[k].address <= results[l].address

\* C19: value-scan output is ordered region-then-offset, in first-pass
\* mode and in incremental mode alike.
C19_RegionThenOffset ==
    ValueScanReturned => (RegionOrdered /\ OffsetOrdered)

-----------------------------------------------------------------------------
(* Pattern parsing *)

\* the characters with the Unicode property White_Space; those that have
\* no escape in a string are written by their code point
White_Space ==
    {"\t", "\n", "U+000B", "\f", "\r", " ", "U+0085", "U+00A0", "U+1680",
     "U+2000", "U+2001", "U+2002", "U+2003", "U+2004", "U+2005", "U+2006",
     "U+2007", "U+2008", "U+2009", "U+200A", "U+2028", "U+2029", "U+202F",
     "U+205F", "U+3000"}

\* char::is_whitespace
is_whitespace(c) == c \in White_Space

\* str::split_whitespace from the i-th character on, `cur` being the token
\* under way
RECURSIVE split_from(_, _, _)
split_from(str, i, cur) ==
    IF i > Len(str) THEN (IF cur = <<>> THEN <<>> ELSE <<cur>>)
    ELSE IF is_whitespace(str[i])
    THEN (IF cur = <<>> THEN <<>> ELSE <<cur>>) \o split_from(str, i + 1, <<>>)
    ELSE split_from(str, i + 1, Append(cur, str[i]))

split_whitespace(str) == split_from(str, 1, <<>>)

\* char::to_digit(16) for the characters of the modelled strings
to_digit(c) ==
    CASE c = "0" -> Some(0)
      [] c = "4" -> Some(4)
      [] c = "f" -> Some(15)
      [] c = "F" -> Some(15)
      [] c \in {"g", "?", "+", "-"} \cup White_Space -> None

\* the digits from the k-th on, accumulated into a u8; None on a character
\* that is no digit and on overflow
RECURSIVE digits_from(_, _, _)
digits_from(digits, k, acc) ==
    IF k > Len(digits) THEN Some(acc)
    ELSE IF to_digit(digits[k]) = None THEN None
    ELSE IF acc * 16 + to_digit(digits[k])[1] > 255 THEN None
    ELSE digits_from(digits, k + 1, acc * 16 + to_digit(digits[k])[1])

\* u8::from_str_radix(src, 16): an optional "+", then one or more digits
from_str_radix(src) ==
    IF src = <<>> THEN None
    ELSE IF src[1] \in {"+", "-"} /\ Len(src) = 1 THEN None
    ELSE IF src[1] = "+" THEN digits_from(Tail(src), 1, 0)
    ELSE digits_from(src, 1, 0)

\* the loop of parse_pattern over the tokens from the k-th on: None on
\* the first token that does not parse
RECURSIVE parse_from(_, _)
parse_from(parts, k) ==
    IF k > Len(parts) THEN Some(<<>>)
    ELSE IF parts[k] = <<"?">>
    THEN (IF parse_from(parts, k + 1) = None THEN None
          ELSE Some(<<Wildcard>> \o parse_from(parts, k + 1)[1]))
    ELSE IF from_str_radix(parts[k]) = None THEN None
    ELSE IF parse_from(parts, k + 1) = None THEN None
    ELSE Some(<<Byte(from_str_radix(parts[k])[1])>> \o parse_from(parts, k + 1)[1])

\* parse_pattern: Ok(elements) as Some, Err as None
parse_pattern(str) == parse_from(split_whitespace(str), 1)

\* characters of a pattern string
PatternChars == {" ", "\t", "?", "4", "f", "F", "g", "+"}

PatternStrings == UNION {[1..n -> PatternChars] : n \in 0..MaxPatternStrLen}

InitParse ==
    /\ request \in {[pattern_str |-> str] : str \in PatternStrings}
    /\ maps = <<>>
    /\ reads = <<>>
    /\ buffer = <<>>
    /\ base_addr = 0
    /\ results = <<>>
    /\ status = "ready"
    /\ xref = <<>>
    /\ pattern = <<>>
    /\ search_value = Bytes(<<>>)
    /\ alignment = 1
    /\ previous_results = None
    /\ compare_type = None

\* the pattern shard parses its pattern: an error of parse_pattern and an
\* empty pattern fail the activation
PatternParse ==
    /\ status = "ready"
    /\ LET parsed == parse_pattern(request.pattern_str)
       IN IF parsed = None \/ parsed = Some(<<>>)
          THEN status' = "failed" /\ pattern' = <<>>
          ELSE status' = "returned" /\ pattern' = parsed[1]
    /\ UNCHANGED <<buffer, base_addr, search_value, alignment, previous_results,
                   compare_type, xref, results, maps, request, reads>>

NextParse == PatternParse

SpecParse == InitParse /\ [][NextParse]_vars

\* the whitespace-separated tokens of the pattern string
Tokens == split_whitespace(request.pattern_str)

HexDigits == {"0", "4", "f", "F"}

\* the token is "?" or exactly two hexadecimal digits
WellFormedToken(t) ==
    \/ t = <<"?">>
    \/ Len(t) = 2 /\ t[1] \in HexDigits /\ t[2] \in HexDigits

\* the element a well-formed token stands for
ElementOf(t) ==
    IF t = <<"?">> THEN Wildcard
    ELSE Byte(16 * to_digit(t[1])[1] + to_digit(t[2])[1])

\* C20: parsing fails if any token is neither "?" nor exactly two
\* hexadecimal digits, and a pattern with no tokens is rejected; otherwise
\* it yields one element per token, in order.
C20_ParseStrict ==
    status # "ready" =>
        IF Tokens = <<>> \/ \E k \in 1..Len(Tokens) : ~WellFormedToken(Tokens[k])
        THEN status = "failed"
        ELSE /\ status = "returned"
             /\ pattern = [k \in 1..Len(Tokens) |-> ElementOf(Tokens[k])]

-----------------------------------------------------------------------------
(* Incremental scans of the other value types *)

\* C25: an incremental scan whose value is a float, a double, a string or
\* bytes emits no result, whatever the compare type, the previous results
\* and the memory hold.
C25_NonIntegerEmitsNothing ==
    (status # "ready" /\ previous_results # None /\ search_value.tag # "Integer")
        => results = <<>>

\* C25 witness: an incremental Equal scan for the byte 0xFF returned, with
\* a previous result at the base address, over a region whose first byte
\* is 0xFF
C25_Witness ==
    /\ IncrementalReturned
    /\ search_value = Bytes(<<255>>)
    /\ compare_type = Some("Equal")
    /\ buffer[1] = 255
    /\ \E k \in 1..Len(PrevTable) :
          /\ PrevTable[k].address = Some(base_addr)
          /\ PrevTable[k].value # None

-----------------------------------------------------------------------------
(* The candidate pass of the xref scanner *)

\* bytes of the buffers handed to the candidate pass: the opcode bytes it
\* looks for, and 0x15
CandidateBytes == {232, 233, 255, 21}

CandidateBuffers == UNION {[1..n -> CandidateBytes] : n \in 0..MaxCandidateLen}

InitCandidates ==
    /\ buffer \in CandidateBuffers
    /\ base_addr = 0
    /\ results = <<>>
    /\ status = "ready"
    /\ xref = <<>>
    /\ NoProcess
    /\ pattern = <<>>
    /\ search_value = Bytes(<<>>)
    /\ alignment = 1
    /\ previous_results = None
    /\ compare_type = None

\* find_potential_call_offsets is applied to the buffer
FindCandidates ==
    /\ status = "ready"
    /\ \E j \in BOOLEAN, i \in BOOLEAN :
          /\ xref' = [include_jumps |-> j, include_indirect |-> i]
          /\ results' = find_potential_call_offsets(buffer, j, i)
    /\ status' = "candidates"
    /\ UNCHANGED <<buffer, base_addr, search_value, alignment, previous_results,
                   compare_type, pattern, maps, request, reads>>

NextCandidates == FindCandidates

SpecCandidates == InitCandidates /\ [][NextCandidates]_vars

CandidatesFound == status = "candidates"

\* the offsets the candidate pass recorded
Recorded == {results[k] : k \in 1..Len(results)}

\* the offsets below `end` that hold the byte b
OffsetsOf(b, end) == {o \in 0..(end - 1) : buffer[o + 1] = b}

\* the offsets below `end` where FF 15 starts
OffsetsOfFF15(end) ==
    {o \in 0..(end - 1) : o + 2 <= Len(buffer) /\ buffer[o + 1] = 255 /\ buffer[o + 2] = 21}

\* C26: the pass records every offset of the buffer that holds E8, every one that holds E9 exactly when jumps are requested, every one
\* where FF 15 starts exactly when indirect references are requested, and
\* no other offset.
C26_CandidatesWholeBuffer ==
    CandidatesFound =>
        Recorded = OffsetsOf(232, Len(buffer))
                   \cup (IF xref.include_jumps THEN OffsetsOf(233, Len(buffer)) ELSE {})
                   \cup (IF xref.include_indirect THEN OffsetsOfFF15(Len(buffer)) ELSE {})

-----------------------------------------------------------------------------
(* Claims about the verification pass of the xref scanner *)

\* the verified candidates that are the first byte of an instruction of
\* their chunk, that instruction being a reference to the target
ReferencingStarts ==
    {o \in VerifiedCandidates :
        \E k \in 1..Len(xref_chunk(buffer, base_addr, o)) :
            /\ xref_chunk(buffer, base_addr, o)[k].address = base_addr + o
            /\ is_reference_to(xref_chunk(buffer, base_addr, o)[k], xref.target_addr,
                               xref.include_jumps, xref.include_indirect) # None}

\* C27: a candidate strictly inside the span of a decoded instruction
\* produces no result: the results are one per candidate that is the first
\* byte of a referencing instruction, each at that instruction's address.
C27_OnlyInstructionStarts ==
    XrefReturned =>
        /\ Len(results) = Cardinality(ReferencingStarts)
        /\ \A k \in 1..Len(results) :
              results[k].address - base_addr \in ReferencingStarts

\* the context lines of the instructions decoded from buffer[start .. end]
WindowLines(start, end) ==
    LET insns == disasm_all(Slice(buffer, start, end - start), base_addr + start)
    IN [k \in 1..Len(insns) |-> context_line(buffer, base_addr, insns[k])]

Max(a, b) == IF a >= b THEN a ELSE b

Min(a, b) == IF a <= b THEN a ELSE b

\* the context list is in address order
ContextOrdered(context) ==
    \A a, b \in 1..Len(context) : a < b => context[a].address < context[b].address

\* the window of the claim around offset o: the count is an unsigned word,
\* and with one of 2^63 or more (a negative representative) both ends are
\* clipped
SymmetricStart(o) ==
    IF xref.context_count < 0 THEN 0 ELSE Max(0, o - 15 * xref.context_count)

SymmetricEnd(o) ==
    IF xref.context_count < 0 THEN Len(buffer)
    ELSE Min(Len(buffer), o + 15 * xref.context_count)

\* C28: the scan returns, and the context of a hit at offset o is the
\* instructions decoded from buffer[max(0, o - 15c) .. min(len, o + 15c)],
\* in address order.
C28_ContextSymmetric ==
    (status # "ready" /\ xref # <<>>) =>
        /\ status = "returned"
        /\ \A k \in 1..Len(results) :
              /\ \E o \in VerifiedCandidates :
                    /\ results[k].address - base_addr <= o
                    /\ results[k].context = WindowLines(SymmetricStart(o), SymmetricEnd(o))
              /\ ContextOrdered(results[k].context)

\* C29: no two results of one scan have the same instruction address.
C29_ReportedOnce ==
    XrefReturned =>
        \A j, k \in 1..Len(results) : j < k => results[j].address # results[k].address

\* C30: the results of a region are in ascending instruction-address
\* order, whatever the include-jumps and include-indirect flags.
C30_AscendingAddresses ==
    XrefReturned =>
        \A j, k \in 1..Len(results) : j < k => results[j].address <= results[k].address

-----------------------------------------------------------------------------
(* The shards: parameters, caller errors and stored outputs *)

\* operations issued on the process handle
Enumerate     == [op |-> "mapped_mem_vec"]
ReadAt(a)     == [op |-> "read", address |-> a]
WriteAt(a)    == [op |-> "write", address |-> a]

\* a Var that holds bytes
BytesVar(bytes) == [type |-> "Bytes", bytes |-> bytes]

\* the outcome of an activation: how it ended, the output the shard stores
\* afterwards, and the operations it issued on the process handle
Outcome(how, stored, io) == [status |-> how, results |-> stored, io |-> io]

\* a stored sequence that keeps its items when cleared (mutant of seq_clear)
seq_clear_keeping(stored) == stored

\* AutoSeqVar clear, AutoTableVar clear
seq_clear(stored) == <<>>

\* the match on value_type: the ScanValue, or None when the tag is not
\* supported or the value does not convert
search_value_of(value_type, value) ==
    CASE value_type = "int" ->
           IF value.type = "Int" THEN Some(Integer(value.int)) ELSE None
      [] value_type = "float" ->
           IF value.type = "Float" THEN Some(Float(value.float)) ELSE None
      [] value_type = "double" ->
           IF value.type = "Float" THEN Some(Double(value.float)) ELSE None
      [] value_type = "string" ->
           IF value.type = "String" THEN Some(String(value.bytes)) ELSE None
      [] value_type = "bytes" ->
           IF value.type = "Bytes" THEN Some(Bytes(value.bytes)) ELSE None
      [] OTHER -> None

\* the match on the compare-type string; None when the parameter is not
\* set or names no compare type
compare_type_of(compare_type_str) ==
    IF compare_type_str = None THEN None
    ELSE CASE compare_type_str[1] = "equal"     -> Some("Equal")
           [] compare_type_str[1] = "notequal"  -> Some("NotEqual")
           [] compare_type_str[1] = "greater"   -> Some("Greater")
           [] compare_type_str[1] = "less"      -> Some("Less")
           [] compare_type_str[1] = "changed"   -> Some("Changed")
           [] compare_type_str[1] = "unchanged" -> Some("Unchanged")
           [] OTHER -> None

\* `alignment as usize`: the word keeps its bits, and with them its
\* representative
as_usize(i) == i

\* the reads of whole regions, by base address, as operations on the
\* process handle
reads_of(bases) == [k \in 1..Len(bases) |-> ReadAt(bases[k])]

\* a scan that went over the filtered regions: the stored sequence is
\* cleared, then holds the results of the regions
scan_outcome(stored, out) ==
    Outcome(IF out.fault THEN "panicked" ELSE "returned",
            seq_clear(stored) \o out.results,
            <<Enumerate>> \o reads_of(out.reads))

\* MemflowMemoryScanShard::activate
memory_scan_shard(stored, mm, p, checks) ==
    LET sv  == search_value_of(p.value_type, p.value)
        incremental == p.previous_scan # None
        cmp == IF incremental THEN compare_type_of(p.compare_type) ELSE None
    IN IF sv = None THEN Outcome("failed", stored, <<Enumerate>>)
       ELSE IF incremental /\ cmp = None THEN Outcome("failed", stored, <<Enumerate>>)
       ELSE LET out == memory_scan_activate(mm, p, sv[1],
                                            as_usize(IF p.alignment = None THEN 1
                                                     ELSE p.alignment[1]),
                                            p.previous_scan, cmp, checks)
            IN scan_outcome(stored, out)

\* MemflowPatternScanShard::activate
pattern_scan_shard(stored, mm, p) ==
    LET parsed == parse_pattern(p.pattern_str)
    IN IF parsed = None THEN Outcome("failed", stored, <<>>)
       ELSE IF parsed[1] = <<>> THEN Outcome("failed", stored, <<>>)
       ELSE LET out == pattern_scan_activate(mm, p, parsed[1])
            IN scan_outcome(stored, out)

\* MemflowFunctionXrefShard::activate
xref_shard(stored, mm, p, checks) ==
    LET out == xref_activate(mm, [protection |-> Some(p.protection)],
                             [target_addr      |-> p.function_address,
                              include_jumps    |-> p.include_jumps,
                              include_indirect |-> p.include_indirect,
                              context_count    |-> as_usize(p.context_instructions)],
                             checks)
    IN scan_outcome(stored, out)

\* the regions whose read succeeds and that hold the n bytes at address a
holders(mm, a, n) ==
    {k \in 1..Len(mm) :
        mm[k].readable /\ mm[k].base <= a /\ a + n <= mm[k].base + mm[k].size}

\* process.read_raw_into at an address: the bytes, or None on error
read_at(mm, a, n) ==
    IF holders(mm, a, n) = {} THEN None
    ELSE LET k == CHOOSE k \in holders(mm, a, n) : TRUE
         IN Some(Slice(mm[k].bytes, a - mm[k].base, n))

\* process.write_raw at an address: the memory afterwards, or None on error
write_at(mm, a, data) ==
    IF holders(mm, a, Len(data)) = {} THEN None
    ELSE LET k == CHOOSE k \in holders(mm, a, Len(data)) : TRUE
         IN Some([mm EXCEPT ![k].bytes =
                     [i \in 1..Len(mm[k].bytes) |->
                         IF i > a - mm[k].base /\ i <= a - mm[k].base + Len(data)
                         THEN data[i - (a - mm[k].base)]
                         ELSE mm[k].bytes[i]]])

\* a size test that lets a read of no bytes through (mutant of size_valid)
size_valid_zero_allowed(n) == ~(n < 0)

\* the size test of the read shards: `size <= 0` is an error
size_valid(n) == ~(n <= 0)

\* MemflowReadMemoryShard::activate
read_memory_shard(stored, mm, p) ==
    IF ~size_valid(p.size) THEN Outcome("failed", stored, <<>>)
    ELSE IF read_at(mm, p.address, p.size) = None
    THEN Outcome("failed", stored, <<ReadAt(p.address)>>)
    ELSE Outcome("returned", read_at(mm, p.address, p.size)[1], <<ReadAt(p.address)>>)

\* MemflowWriteMemoryShard::activate; the memory afterwards comes with the
\* outcome
write_memory_shard(stored, mm, p) ==
    IF p.data = <<>> THEN [out |-> Outcome("failed", stored, <<>>), mem |-> mm]
    ELSE IF write_at(mm, p.address, p.data) = None
    THEN [out |-> Outcome("failed", stored, <<WriteAt(p.address)>>), mem |-> mm]
    ELSE [out |-> Outcome("returned", <<TRUE>>, <<WriteAt(p.address)>>),
          mem |-> write_at(mm, p.address, p.data)[1]]

\* the collecting loop of the batch read from the k-th entry on: the read
\* operations, or None when an entry lacks a field or asks for no bytes
RECURSIVE collect_reads(_, _)
collect_reads(batch, k) ==
    IF k > Len(batch) THEN Some(<<>>)
    ELSE IF batch[k].address = None THEN None
    ELSE IF batch[k].size = None THEN None
    ELSE IF ~size_valid(batch[k].size[1]) THEN None
    ELSE IF collect_reads(batch, k + 1) = None THEN None
    ELSE Some(<<[key |-> batch[k].key, address |-> batch[k].address[1],
                 size |-> batch[k].size[1]]>> \o collect_reads(batch, k + 1)[1])

\* MemflowBatchReadMemoryShard::activate; commit_rw fails when a read of
\* the batch fails
batch_read_shard(stored, mm, p) ==
    LET ops == collect_reads(p.reads, 1)
    IN IF ops = None THEN Outcome("failed", stored, <<>>)
       ELSE LET io == [k \in 1..Len(ops[1]) |-> ReadAt(ops[1][k].address)]
            IN IF \E k \in 1..Len(ops[1]) :
                      read_at(mm, ops[1][k].address, ops[1][k].size) = None
               THEN Outcome("failed", stored, io)
               ELSE Outcome("returned",
                            seq_clear(stored) \o
                            [k \in 1..Len(ops[1]) |->
                                [key   |-> ops[1][k].key,
                                 bytes |-> read_at(mm, ops[1][k].address,
                                                   ops[1][k].size)[1]]],
                            io)

\* the collecting loop of the batch write from the k-th entry on
RECURSIVE collect_writes(_, _)
collect_writes(batch, k) ==
    IF k > Len(batch) THEN Some(<<>>)
    ELSE IF batch[k].address = None THEN None
    ELSE IF batch[k].data = None THEN None
    ELSE IF batch[k].data[1] = <<>> THEN None
    ELSE IF collect_writes(batch, k + 1) = None THEN None
    ELSE Some(<<[address |-> batch[k].address[1], data |-> batch[k].data[1]]>>
              \o collect_writes(batch, k + 1)[1])

\* the memory after the writes of `ops` whose index is in `applied`, from
\* the k-th on; a write that fails leaves the memory as it is
RECURSIVE apply_writes(_, _, _, _)
apply_writes(mm, ops, applied, k) ==
    IF k > Len(ops) THEN mm
    ELSE IF k \in applied /\ write_at(mm, ops[k].address, ops[k].data) # None
    THEN apply_writes(write_at(mm, ops[k].address, ops[k].data)[1], ops, applied, k + 1)
    ELSE apply_writes(mm, ops, applied, k + 1)

\* MemflowBatchWriteMemoryShard::activate; commit_rw fails when a write of
\* the batch fails, and the process handle decides which of the other
\* writes of a failed batch it has applied: `mems` holds every memory the
\* call can leave
batch_write_shard(stored, mm, p) ==
    LET ops == collect_writes(p.writes, 1)
    IN IF ops = None THEN [out |-> Outcome("failed", stored, <<>>), mems |-> {mm}]
       ELSE LET io  == [k \in 1..Len(ops[1]) |-> WriteAt(ops[1][k].address)]
                all == 1..Len(ops[1])
            IN IF \E k \in all : write_at(mm, ops[1][k].address, ops[1][k].data) = None
               THEN [out  |-> Outcome("failed", stored, io),
                     mems |-> {apply_writes(mm, ops[1], applied, 1) :
                                  applied \in SUBSET all}]
               ELSE [out  |-> Outcome("returned", stored, io),
                     mems |-> {apply_writes(mm, ops[1], all, 1)}]

-----------------------------------------------------------------------------
(* A shard activated again and again on one process *)

ShardKinds ==
    {"value", "pattern", "xref", "read", "write", "batch_read", "batch_write"}

\* a region that holds a call at offset 0 to the address behind it
CallImage == <<232, 0, 0, 0, 0>> \o Zeros(7)

\* the memory maps of the process: one or two regions, each r-x, holding
\* zeros or the call image, readable or not
ShardMaps ==
    {MapOf(c) :
        c \in UNION {[1..n -> [image : {Zeros(10), CallImage}, page_type : {{}},
                               readable : BOOLEAN]] : n \in {1, 2}}}

\* one result of an earlier Integer scan, at the base of the first region
ShardPreviousScan ==
    <<[address |-> Some(RegionBase(1)), value |-> Some(IntVar(I64(0)))]>>

\* parameters of the value scanner: a supported or unsupported value type
\* with a value of that type, the default alignment or a negative, zero or
\* positive one, first-pass or incremental, with no compare type, a
\* supported or an unsupported one
ValueParams ==
    {[value_type    |-> t,
      value         |-> IF t = "bytes" THEN BytesVar(<<0>>) ELSE IntVar(I64(0)),
      alignment     |-> a,
      min_size      |-> 1,
      max_size      |-> None,
      protection    |-> None,
      previous_scan |-> prev,
      compare_type  |-> c] :
        t \in {"int", "bytes", "word"},
        a \in {None, Some(-1), Some(0), Some(2)},
        prev \in {None, Some(ShardPreviousScan)},
        c \in {None, Some("equal"), Some("same")}}

\* parameters of the pattern scanner: an empty pattern, two patterns of
\* one two-digit byte, a token that is no number, a one-digit token
PatternParams ==
    {[pattern_str |-> str, min_size |-> 1, protection |-> None] :
        str \in {<<>>, <<"0", "0">>, <<"f", "f">>, <<"g", "g">>, <<"4">>}}

\* parameters of the xref scanner: the address behind the call of the
\* first region, over the executable or the writable regions
XrefParams ==
    [function_address : {RegionBase(1) + 5}, include_jumps : BOOLEAN,
     include_indirect : {FALSE}, context_instructions : {0, -1},
     protection : {<<"x">>, <<"w">>}]

\* addresses of single reads and writes: in the first region, near its
\* end, and in no region
TransferAddresses == {RegionBase(1), RegionBase(1) + 8, 64}

ReadParams == [address : TransferAddresses, size : {-1, 0, 2, 4}]

WriteParams == [address : TransferAddresses, data : {<<>>, <<65>>}]

\* a batch: its entries in the order the table iterates them, each under
\* its own key
Keyed(entries) == [k \in 1..Len(entries) |-> [key |-> k] @@ entries[k]]

\* entries of a batch of reads: one that succeeds, one without address,
\* one without size, one that asks for no bytes, one that no region holds
ReadEntries ==
    {[address |-> Some(RegionBase(1)), size |-> Some(2)],
     [address |-> None,                size |-> Some(2)],
     [address |-> Some(RegionBase(1)), size |-> None],
     [address |-> Some(RegionBase(1)), size |-> Some(0)],
     [address |-> Some(64),            size |-> Some(2)]}

BatchReadParams ==
    {[reads |-> Keyed(es)] : es \in UNION {[1..n -> ReadEntries] : n \in 0..MaxBatch}}

\* entries of a batch of writes: one that succeeds, one without address,
\* one without data, one with empty data, one that no region holds
WriteEntries ==
    {[address |-> Some(RegionBase(1)), data |-> Some(<<65>>)],
     [address |-> None,                data |-> Some(<<65>>)],
     [address |-> Some(RegionBase(1)), data |-> None],
     [address |-> Some(RegionBase(1)), data |-> Some(<<>>)],
     [address |-> Some(64),            data |-> Some(<<65>>)]}

BatchWriteParams ==
    {[writes |-> Keyed(es)] : es \in UNION {[1..n -> WriteEntries] : n \in 0..MaxBatch}}

InitShards ==
    /\ maps \in ShardMaps
    /\ request \in {[shard |-> kind, params |-> <<>>] : kind \in ShardKinds}
    /\ reads = <<>>
    /\ results = <<>>
    /\ status = "ready"
    /\ buffer = <<>>
    /\ base_addr = 0
    /\ xref = <<>>
    /\ pattern = <<>>
    /\ search_value = Bytes(<<>>)
    /\ alignment = 1
    /\ previous_results = None
    /\ compare_type = None

\* the activation ended as `out` says, with the parameters p
Activate(p, out) ==
    /\ request' = [request EXCEPT !.params = p]
    /\ results' = out.results
    /\ reads' = out.io
    /\ status' = out.status
    /\ UNCHANGED <<buffer, base_addr, search_value, alignment, previous_results,
                   compare_type, pattern, xref>>

ActivateMemoryScan ==
    /\ request.shard = "value"
    /\ status # "panicked"
    /\ \E p \in ValueParams, checks \in BOOLEAN :
          \E out \in {memory_scan_shard(results, maps, p, checks)} : Activate(p, out)
    /\ UNCHANGED maps

ActivatePatternScan ==
    /\ request.shard = "pattern"
    /\ \E p \in PatternParams :
          \E out \in {pattern_scan_shard(results, maps, p)} : Activate(p, out)
    /\ UNCHANGED maps

ActivateXref ==
    /\ request.shard = "xref"
    /\ status # "panicked"
    /\ \E p \in XrefParams, checks \in BOOLEAN :
          \E out \in {xref_shard(results, maps, p, checks)} : Activate(p, out)
    /\ UNCHANGED maps

ActivateReadMemory ==
    /\ request.shard = "read"
    /\ \E p \in ReadParams :
          \E out \in {read_memory_shard(results, maps, p)} : Activate(p, out)
    /\ UNCHANGED maps

ActivateWriteMemory ==
    /\ request.shard = "write"
    /\ \E p \in WriteParams :
          \E w \in {write_memory_shard(results, maps, p)} :
             /\ Activate(p, w.out)
             /\ maps' = w.mem

ActivateBatchRead ==
    /\ request.shard = "batch_read"
    /\ \E p \in BatchReadParams :
          \E out \in {batch_read_shard(results, maps, p)} : Activate(p, out)
    /\ UNCHANGED maps

ActivateBatchWrite ==
    /\ request.shard = "batch_write"
    /\ \E p \in BatchWriteParams :
          \E w \in {batch_write_shard(results, maps, p)} :
             /\ Activate(p, w.out)
             /\ maps' \in w.mems

\* Shard::cleanup, which the runtime calls between activations: the shard
\* replaces its stored output by a new, empty one; the process and what the
\* last activation was called with and did are as they were
Cleanup ==
    /\ results' = <<>>
    /\ UNCHANGED <<request, reads, status, maps, buffer, base_addr, search_value,
                   alignment, previous_results, compare_type, pattern, xref>>

\* MemflowMemoryScanShard::cleanup
CleanupMemoryScan ==
    /\ request.shard = "value"
    /\ status # "panicked"
    /\ Cleanup

\* MemflowPatternScanShard::cleanup
CleanupPatternScan ==
    /\ request.shard = "pattern"
    /\ Cleanup

\* MemflowFunctionXrefShard::cleanup
CleanupXref ==
    /\ request.shard = "xref"
    /\ status # "panicked"
    /\ Cleanup

\* MemflowReadMemoryShard::cleanup: the output buffer is reset
CleanupReadMemory ==
    /\ request.shard = "read"
    /\ Cleanup

\* MemflowWriteMemoryShard::cleanup: the output status is reset
CleanupWriteMemory ==
    /\ request.shard = "write"
    /\ Cleanup

\* MemflowBatchReadMemoryShard::cleanup: the output table is replaced; the
\* `reads` parameter is always set here.  The cleanup of the batch write
\* shard touches no field of the shard and has no action.
CleanupBatchRead ==
    /\ request.shard = "batch_read"
    /\ Cleanup

NextShards ==
    \/ ActivateMemoryScan
    \/ ActivatePatternScan
    \/ ActivateXref
    \/ ActivateReadMemory
    \/ ActivateWriteMemory
    \/ ActivateBatchRead
    \/ ActivateBatchWrite
    \/ CleanupMemoryScan
    \/ CleanupPatternScan
    \/ CleanupXref
    \/ CleanupReadMemory
    \/ CleanupWriteMemory
    \/ CleanupBatchRead

SpecShards == InitShards /\ [][NextShards]_vars

-----------------------------------------------------------------------------
(* Claims about caller errors, batches and repeated activations *)

\* the parameters of the last activation
Params == request.params

HasActivated == status # "ready"

\* memory reads and writes among the operations the last activation issued
Transfers == SelectSeq(reads, LAMBDA io : io.op \in {"read", "write"})

ValueTypeTags == {"int", "float", "double", "string", "bytes"}

CompareTypeNames == {"equal", "notequal", "greater", "less", "changed", "unchanged"}

\* the last activation was called with an unsupported value-type tag, an
\* unsupported compare type in an incremental scan, an empty or malformed
\* pattern, a read size <= 0 or empty write data
CallerError ==
    CASE request.shard = "value" ->
           \/ Params.value_type \notin ValueTypeTags
           \/ /\ Params.previous_scan # None
              /\ Params.compare_type # None
              /\ Params.compare_type[1] \notin CompareTypeNames
      [] request.shard = "pattern" ->
           LET tokens == split_whitespace(Params.pattern_str)
           IN tokens = <<>> \/ \E k \in 1..Len(tokens) : ~WellFormedToken(tokens[k])
      [] request.shard = "read" -> Params.size <= 0
      [] request.shard = "write" -> Params.data = <<>>
      [] OTHER -> FALSE

\* the step is a cleanup: the stored output becomes empty and nothing else
\* changes (no activation takes such a step: one that fails keeps the
\* stored output, one that returns again with the same parameters on the
\* same process stores what it stored before)
CleanupStep ==
    /\ results' = <<>>
    /\ UNCHANGED <<request, reads, status, maps>>

\* C21: an activation with a caller error returns an error, issues no
\* read or write on the process handle and leaves the stored results as
\* they were.
C21_CallerErrorsFatal ==
    [][(CallerError' /\ ~CleanupStep) =>
          /\ status' = "failed"
          /\ Transfers' = <<>>
          /\ results' = results
          /\ maps' = maps]_vars

\* C22: a value scan whose alignment is zero or negative is reported as a
\* caller error.
C22_AlignmentValidated ==
    (/\ HasActivated
     /\ request.shard = "value"
     /\ Params.alignment # None
     /\ Params.alignment[1] <= 0)
        => status = "failed"

BatchOf == IF request.shard = "batch_read" THEN Params.reads ELSE Params.writes

\* the entry lacks a field, asks for no bytes or carries no data
InvalidEntry(e) ==
    \/ e.address = None
    \/ IF request.shard = "batch_read"
       THEN e.size = None \/ e.size[1] <= 0
       ELSE e.data = None \/ e.data[1] = <<>>

\* the process handle can serve the entry
Served(e) ==
    IF request.shard = "batch_read"
    THEN read_at(maps, e.address[1], e.size[1]) # None
    ELSE write_at(maps, e.address[1], e.data[1]) # None

\* C23: a batch with an invalid entry submits nothing to the process
\* handle and fails; a failed batch leaves the stored output table as it
\* was; a results table is produced only when every entry is valid and
\* every read succeeded, and then holds one entry per request key.
C23_BatchAllOrNothing ==
    [][(request.shard \in {"batch_read", "batch_write"} /\ ~CleanupStep) =>
          /\ (\E k \in 1..Len(BatchOf') : InvalidEntry(BatchOf'[k]))
                => (status' = "failed" /\ reads' = <<>> /\ maps' = maps)
          /\ status' = "failed" => results' = results
          /\ (status' = "returned" /\ request.shard = "batch_read")
                => /\ \A k \in 1..Len(BatchOf') :
                         ~InvalidEntry(BatchOf'[k]) /\ Served(BatchOf'[k])
                   /\ Len(results') = Len(BatchOf')
                   /\ \A k \in 1..Len(BatchOf') :
                         \E j \in 1..Len(results') : results'[j].key = BatchOf'[k].key
                   /\ \A i, j \in 1..Len(results') :
                         results'[i].key = results'[j].key => i = j]_vars

\* C23 witness: a batch read whose entries were all valid was committed
\* and failed, and the shard still stores the table of an earlier batch
C23_Witness ==
    /\ request.shard = "batch_read"
    /\ status = "failed"
    /\ reads # <<>>
    /\ results # <<>>

\* the outcome of a scanner called with the parameters p, had the shard
\* stored nothing before
FreshOutcomeOf(p, checks) ==
    CASE request.shard = "value"   -> memory_scan_shard(<<>>, maps, p, checks)
      [] request.shard = "pattern" -> pattern_scan_shard(<<>>, maps, p)
      [] request.shard = "xref"    -> xref_shard(<<>>, maps, p, checks)

\* C24: the results a scanner returns are those of its parameters, the
\* regions and the memory alone: what a shard that had stored nothing
\* returns for them, whatever activations and cleanups came before.  (A
\* scanner's step leaves the memory map as it is.)
C24_NoSharedState ==
    [][(/\ request.shard \in {"value", "pattern", "xref"}
        /\ status' = "returned"
        /\ ~CleanupStep)
          => /\ maps' = maps
             /\ \E checks \in BOOLEAN :
                   results' = FreshOutcomeOf(Params', checks).results]_vars

\* C24 witness: an xref scan over the executable regions returned the
\* call of the first region to the target
C24_Witness ==
    /\ status = "returned"
    /\ request.shard = "xref"
    /\ Params.protection = <<"x">>
    /\ maps[1].readable
    /\ maps[1].bytes = CallImage
    /\ results # <<>>

====
